---------------------------- MODULE Spec2Model ----------------------------
(***************************************************************************)
(* The server side of the onepointsix engine: GamemodeServer (its event    *)
(* bus, its run loop, its replication queues and its connection handling)  *)
(* together with the entity classes that plug into it.                     *)
(*                                                                         *)
(* The server is single threaded.  One action of the model is one          *)
(* top-level step of GamemodeServer.run (a gate check or one top-level     *)
(* trigger call together with every handler and nested trigger it runs),   *)
(* or one step of the environment (a peer connecting, sending a batch or   *)
(* closing its stream, the wall clock advancing).                          *)
(***************************************************************************)
EXTENDS Integers, Sequences, FiniteSets, TLC

(***************************************************************************)
(* Bounds of the model.                                                    *)
(***************************************************************************)
\* the loop of run is followed for this many simulation ticks
MaxTicks == 2
\* framed messages a peer may have in flight towards the server
MaxInbox == 1

(***************************************************************************)
(* Identities and names.                                                   *)
(***************************************************************************)
\* self.uuid of the server
ServerUuid == "server"
\* identities the connecting peers declare in their handshake
Clients == {"c1", "c2"}
\* keys of entity_type_map, as a gamemode server fills it
EntityTypeMap == {"floor", "player", "shotgun", "portal"}
\* an entity type name that is no key of entity_type_map
UnknownType == "turret"
\* "the object is the server itself" in a handler's __self__
ServerObj == 0

\* classes a server object may be an instance of: GamemodeServer itself, a
\* direct subclass that creates its level in a ServerStart handler
\* (ArenaServer), a direct subclass that creates nothing, and a subclass of
\* a subclass
ServerClasses == {"GamemodeServer", "ArenaServer", "PlainServer", "DerivedArenaServer"}

\* the periods 1/max_tick_rate and 1/network_tick_rate handed to run, in
\* clock units, and the clock reading when run starts (time.time() is
\* seconds since the epoch: far larger than either period)
SimPeriod == 1
NetPeriod == SimPeriod + 1
StartClock == NetPeriod + 1

(***************************************************************************)
(* Values.                                                                 *)
(***************************************************************************)
\* a key that a serialized dict does not hold
Absent == "_"
\* JSON null
None == "None"
\* a dict of serialized entity data: each key holds a value or is Absent
EmptyDict == [interaction_rect |-> Absent, updater |-> Absent, weapon |-> Absent, owner |-> Absent]
DictKeys == {"interaction_rect", "updater", "weapon", "owner"}

\* what an attribute that refers to another entity may hold
NoRef == [kind |-> "none", uuid |-> "", obj |-> 0]
NoAttr == [kind |-> "absent", uuid |-> "", obj |-> 0]
Unresolved(id) == [kind |-> "unresolved", uuid |-> id, obj |-> 0]
Live(o) == [kind |-> "live", uuid |-> "", obj |-> o]
\* an id string put into the attribute as it came
Raw(id) == [kind |-> "raw", uuid |-> id, obj |-> 0]

\* the entity classes of the test gamemode (fight/gamemodes/test/entities.py);
\* its Weapon names its reference attribute player, kept here in the field
\* and under the key owner
TestPlayer == "test.player"
TestWeapon == "test.weapon"
TestBullet == "test.bullet"
\* the classes whose objects have a weapon attribute, and an owner attribute
HasWeapon == {"player", TestPlayer, TestBullet}
HasOwner == {"shotgun", TestWeapon}

\* one replication update, as network_update builds it and as peers send it
Update(type, id, etype, data) ==
    [update_type |-> type, entity_id |-> id, entity_type |-> etype, data |-> data]

VARIABLES
    pc,                 \* where run is: start, sim_gate, phase, net_gate, network_tick, stopped, crashed
    phase,              \* index of the next simulation phase to dispatch
    clock,              \* time.time()
    last_network_tick,  \* local of run
    last_game_tick,     \* local of run
    server_class,       \* the class of the server object
    listening,          \* the server socket is bound and listening
    client_sockets,     \* keys of self.client_sockets, in insertion order
    entities,           \* self.entities: <<id, object>> pairs in insertion order
    heap,               \* every entity object ever constructed
    updates_to_load,    \* self.updates_to_load
    update_queue,       \* self.update_queue: <<destination, updates>> pairs in insertion order
    event_subscriptions,\* self.event_subscriptions
    tick_count,         \* self.tick_count
    last_tick,          \* self.last_tick
    dt,                 \* self.dt
    exc,                \* the exception that ended run, or "none"
    pending,            \* connections waiting in the listen backlog
    inbox,              \* per peer, framed messages not yet read by the server
    closed,             \* peers that closed their stream
    sent,               \* per peer, the messages the server has sent to it
    appended,           \* history: per peer, every update appended to its queue, in order
    script,             \* per peer, how far its own game has got
    dispatched,         \* history: events given to trigger in this loop iteration
    calls,              \* history: subscribers trigger looked at in this loop iteration
    flushes,            \* history: runs of send_client_updates in this loop iteration
    relays,             \* history: batches read by receive_client_updates in this loop iteration
    loads,              \* history: runs of load_updates in this loop iteration
    disconnects,        \* history: peers whose poll raised Disconnected in this loop iteration
    disconnect_count,   \* history: per peer, the DisconnectedClient events dispatched for it so far
    detects,            \* history: runs of detect_updates in this loop iteration
    requests,           \* history: calls of network_update made by a gamemode's own code
    network_ticks,      \* history: the clock at each dispatch of NetworkTick
    sim_fired           \* history: the simulation gate fired in this loop iteration

vars == <<pc, phase, clock, last_network_tick, last_game_tick, server_class, listening,
          client_sockets, entities, heap, updates_to_load, update_queue,
          event_subscriptions, tick_count, last_tick, dt, exc, pending, inbox, closed,
          sent, appended, script, dispatched, calls, flushes, relays, loads, disconnects, disconnect_count,
          detects, requests, network_ticks, sim_fired>>


(***************************************************************************)
(* Python dicts that keep their insertion order, as sequences of           *)
(* <<key, value>> pairs.                                                   *)
(***************************************************************************)
HasKey(d, k) == \E i \in 1..Len(d) : d[i][1] = k
Get(d, k) == d[CHOOSE i \in 1..Len(d) : d[i][1] = k][2]
Put(d, k, v) ==
    IF HasKey(d, k)
    THEN [i \in 1..Len(d) |-> IF d[i][1] = k THEN <<k, v>> ELSE d[i]]
    ELSE Append(d, <<k, v>>)
Del(d, k) == SelectSeq(d, LAMBDA p : p[1] # k)
InSeq(q, x) == \E i \in 1..Len(q) : q[i] = x
\* a defaultdict(list) read: the list under k, [] when k is missing
QueueOf(q, k) == IF HasKey(q, k) THEN Get(q, k) ELSE <<>>

(***************************************************************************)
(* The state the handlers of the server read and write, as one record, so  *)
(* that a handler is a function from state to state and a nested call is a *)
(* nested application.                                                     *)
(***************************************************************************)
Cur ==
    [listening |-> listening, client_sockets |-> client_sockets, entities |-> entities,
     heap |-> heap, updates_to_load |-> updates_to_load, update_queue |-> update_queue,
     event_subscriptions |-> event_subscriptions, tick_count |-> tick_count,
     last_tick |-> last_tick, dt |-> dt, exc |-> exc,
     pending |-> pending, inbox |-> inbox, sent |-> sent, appended |-> appended,
     dispatched |-> dispatched,
     calls |-> calls, flushes |-> flushes, relays |-> relays, loads |-> loads,
     disconnects |-> disconnects, disconnect_count |-> disconnect_count, detects |-> detects]

Commit(s) ==
    /\ listening' = s.listening
    /\ client_sockets' = s.client_sockets
    /\ entities' = s.entities
    /\ heap' = s.heap
    /\ updates_to_load' = s.updates_to_load
    /\ update_queue' = s.update_queue
    /\ event_subscriptions' = s.event_subscriptions
    /\ tick_count' = s.tick_count
    /\ last_tick' = s.last_tick
    /\ dt' = s.dt
    /\ exc' = s.exc
    /\ pending' = s.pending
    /\ inbox' = s.inbox
    /\ sent' = s.sent
    /\ appended' = s.appended
    /\ dispatched' = s.dispatched
    /\ calls' = s.calls
    /\ flushes' = s.flushes
    /\ relays' = s.relays
    /\ loads' = s.loads
    /\ disconnects' = s.disconnects
    /\ disconnect_count' = s.disconnect_count
    /\ detects' = s.detects

\* an exception that nothing catches: it unwinds every frame up to run
Raise(s, e) == [s EXCEPT !.exc = e]

(***************************************************************************)
(* Events and subscribers.                                                 *)
(***************************************************************************)
Event(type) == [type |-> type, client |-> ""]
ClientEvent(type, c) == [type |-> type, client |-> c]
Handler(o, fn) == [obj |-> o, fn |-> fn]

EventTypes ==
    {"ServerStart", "ResourcesLoaded", "TickStart", "Tick", "TickComplete", "NetworkTick",
     "NewClient", "DisconnectedClient", "ReceivedClientUpdates", "UpdatesLoaded", "Landed",
     "MouseLeftClick"}

\* GamemodeServer.__init__: the subscriptions of the server itself.  A
\* defaultdict(list): every other event type has the empty list.
ServerSubscriptions ==
    [t \in EventTypes |->
        CASE t = "ReceivedClientUpdates" -> <<Handler(ServerObj, "load_updates")>>
          [] t = "ServerStart" -> <<Handler(ServerObj, "load_resources"),
                                    Handler(ServerObj, "enable_socket")>>
          [] t = "UpdatesLoaded" -> <<Handler(ServerObj, "send_client_updates")>>
          [] t = "NewClient" -> <<Handler(ServerObj, "handle_new_client")>>
          [] t = "Tick" -> <<Handler(ServerObj, "increment_tick_counter"),
                             Handler(ServerObj, "accept_new_clients"),
                             Handler(ServerObj, "receive_client_updates")>>
          [] t = "TickStart" -> <<Handler(ServerObj, "measure_dt")>>
          [] OTHER -> <<>>]

\* ArenaServer.__init__: a gamemode adds its own ServerStart handler
GamemodeSubscriptions(cls) ==
    IF cls \in {"ArenaServer", "DerivedArenaServer"}
    THEN [ServerSubscriptions EXCEPT !["ServerStart"] = Append(@, Handler(ServerObj, "start"))]
    ELSE ServerSubscriptions

\* function.__self__.__class__.__base__ == GamemodeServer, for the server object
ServerBaseIsGamemodeServer(cls) == cls \in {"ArenaServer", "PlainServer"}

(***************************************************************************)
(* Entities.                                                               *)
(***************************************************************************)
\* the subscriptions an entity's constructors add, in the order the
\* constructors run (Entity.__init__ first, then PhysicsEntity.__init__,
\* then the class's own)
ClassSubscriptions(cls, o) ==
    CASE cls = "player" ->
            <<<<"TickComplete", Handler(o, "detect_updates")>>,
              <<"Tick", Handler(o, "tick")>>,
              <<"Tick", Handler(o, "move_x_axis")>>,
              <<"Tick", Handler(o, "move_y_axis")>>,
              <<"Tick", Handler(o, "apply_gravity")>>,
              <<"Tick", Handler(o, "apply_friction")>>,
              <<"Landed", Handler(o, "bounce")>>,
              <<"Tick", Handler(o, "handle_keys")>>>>
      [] cls = "shotgun" ->
            <<<<"TickComplete", Handler(o, "detect_updates")>>,
              <<"Tick", Handler(o, "follow_owner")>>,
              <<"Tick", Handler(o, "follow_cursor")>>>>
      [] cls = TestPlayer ->
            <<<<"TickComplete", Handler(o, "detect_updates")>>,
              <<"Tick", Handler(o, "handle_keys")>>>>
      [] cls = TestWeapon ->
            <<<<"TickComplete", Handler(o, "detect_updates")>>,
              <<"Tick", Handler(o, "aim")>>,
              <<"Tick", Handler(o, "follow_player")>>,
              <<"MouseLeftClick", Handler(o, "shoot")>>>>
      [] OTHER -> <<<<"TickComplete", Handler(o, "detect_updates")>>>>

RECURSIVE Subscribe(_, _)
Subscribe(subs, pairs) ==
    IF pairs = <<>> THEN subs
    ELSE Subscribe([subs EXCEPT ![Head(pairs)[1]] = Append(@, Head(pairs)[2])], Tail(pairs))

\* Entity.__init__ and the constructors above it: the fields are set, the
\* object puts itself into game.entities under its id and subscribes
Construct(s, cls, id, updater, rect, weapon, owner) ==
    LET o == Len(s.heap) + 1
        object == [cls |-> cls, id |-> id, updater |-> updater, interaction_rect |-> rect,
                   weapon |-> weapon, owner |-> owner, last_tick_dict |-> EmptyDict]
    IN [s EXCEPT !.heap = Append(@, object),
                 !.entities = Put(@, id, o),
                 !.event_subscriptions = Subscribe(@, ClassSubscriptions(cls, o))]

\* the id a reference attribute serializes to: x.uuid of the entity or of
\* the Unresolved placeholder it holds
RefId(s, r) == IF r.kind = "live" THEN s.heap[r.obj].id ELSE r.uuid

\* Weapon.dict reads self.owner.uuid whatever owner is; the serialize of the
\* test gamemode's classes reads the id of any attribute that is not None
CanSerialize(s, o) ==
    /\ s.heap[o].cls = "shotgun" => s.heap[o].owner.kind \in {"live", "unresolved"}
    /\ s.heap[o].cls = TestWeapon => s.heap[o].owner.kind # "raw"

\* Entity.dict, Player.dict, Weapon.dict
Serialize(s, o) ==
    LET e == s.heap[o]
    IN [interaction_rect |-> e.interaction_rect,
        updater |-> e.updater,
        weapon |-> IF e.cls \notin HasWeapon THEN Absent
                   ELSE IF e.weapon.kind = "none" THEN None ELSE RefId(s, e.weapon),
        owner |-> IF e.cls \notin HasOwner THEN Absent
                  ELSE IF e.cls = TestWeapon /\ e.owner.kind = "none" THEN None
                  ELSE RefId(s, e.owner)]

\* a create that hands no weapon to the constructor of a player
CreateUnarmed(s, cls, id, data) ==
    Construct(s, cls, id, data.updater, data.interaction_rect,
              IF cls # "player" THEN NoAttr ELSE NoRef,
              IF cls # "shotgun" THEN NoAttr ELSE Unresolved(data.owner))

\* Entity.create, Player.create, Weapon.create: serialized data to
\* constructor arguments, then the constructor
Create(s, cls, id, data) ==
    Construct(s, cls, id, data.updater, data.interaction_rect,
              IF cls \notin HasWeapon THEN NoAttr
              ELSE IF data.weapon # None THEN Unresolved(data.weapon) ELSE NoRef,
              IF cls \notin HasOwner THEN NoAttr
              ELSE IF cls = TestWeapon /\ data.owner = None THEN NoRef
              ELSE Unresolved(data.owner))

\* an update that takes the entity's id from the delta's updater
ApplyDeltaRenaming(s, o, data) ==
    [s EXCEPT !.heap[o].interaction_rect = IF data.interaction_rect # Absent
                                           THEN data.interaction_rect ELSE @,
              !.heap[o].updater = IF data.updater # Absent THEN data.updater ELSE @,
              !.heap[o].id = IF data.updater # Absent THEN data.updater ELSE "renamed"]

\* Entity.update, Player.update, Weapon.update, and the update of the test
\* gamemode's Player (which ends with self.weapon = None whatever the delta
\* holds), Weapon (which assigns the id it was given) and Bullet
ApplyDelta(s, o, data) ==
    LET e == s.heap[o]
        e1 == [e EXCEPT !.interaction_rect = IF data.interaction_rect # Absent
                                             THEN data.interaction_rect ELSE @,
                        !.updater = IF data.updater # Absent THEN data.updater ELSE @]
        e2 == IF e.cls \in {"player", TestBullet} /\ data.weapon # Absent
              THEN [e1 EXCEPT !.weapon = IF data.weapon # None
                                         THEN Unresolved(data.weapon) ELSE NoRef]
              ELSE IF e.cls = TestPlayer /\ data.weapon # Absent
              THEN [e1 EXCEPT !.weapon = NoRef]
              ELSE e1
        e3 == IF e.cls = "shotgun" /\ data.owner # Absent
              THEN [e2 EXCEPT !.owner = Unresolved(data.owner)]
              ELSE IF e.cls = TestWeapon /\ data.owner # Absent
              THEN [e2 EXCEPT !.owner = IF data.owner # None THEN Raw(data.owner) ELSE NoRef]
              ELSE e2
    IN [s EXCEPT !.heap[o] = e3]

\* a resolve that leaves the placeholder where it is
ResolveRefKeep(s, r) == r

\* Entity.resolve: every attribute holding an Unresolved is replaced by the
\* registry's entity of that id; game.entities[...] raises KeyError when
\* the id is missing
ResolveRef(s, r) == IF r.kind = "unresolved" THEN Live(Get(s.entities, r.uuid)) ELSE r
Resolvable(s, r) == r.kind = "unresolved" => HasKey(s.entities, r.uuid)
Resolve(s, o) ==
    IF s.exc # "none" THEN s
    ELSE LET e == s.heap[o]
         IN IF ~Resolvable(s, e.weapon) THEN Raise(s, "KeyError")
            ELSE LET s1 == [s EXCEPT !.heap[o].weapon = ResolveRef(s, e.weapon)]
                 IN IF ~Resolvable(s1, e.owner) THEN Raise(s1, "KeyError")
                    ELSE [s1 EXCEPT !.heap[o].owner = ResolveRef(s1, e.owner)]

\* entities of the registry that hold an Unresolved whose id is in the registry
HoldsResolvable(s, o) ==
    \/ s.heap[o].weapon.kind = "unresolved" /\ HasKey(s.entities, s.heap[o].weapon.uuid)
    \/ s.heap[o].owner.kind = "unresolved" /\ HasKey(s.entities, s.heap[o].owner.uuid)
ResolvableCount(s) ==
    Cardinality({i \in 1..Len(s.entities) : HoldsResolvable(s, s.entities[i][2])})

\* Entity.kill: the entity leaves the registry
Kill(s, o) == [s EXCEPT !.entities = Del(@, s.heap[o].id)]

(***************************************************************************)
(* Replication queues.                                                     *)
(***************************************************************************)
NoDestinations == [given |-> FALSE, list |-> <<>>]
Destinations(l) == [given |-> TRUE, list |-> l]

RECURSIVE QueueAppend(_, _, _)
QueueAppend(q, dests, updates) ==
    IF dests = <<>> THEN q
    ELSE QueueAppend(Put(q, Head(dests), QueueOf(q, Head(dests)) \o updates),
                     Tail(dests), updates)

\* history: the updates noted as appended for each destination
RECURSIVE Noted(_, _, _)
Noted(a, dests, updates) ==
    IF dests = <<>> THEN a
    ELSE Noted([a EXCEPT ![Head(dests)] = @ \o updates], Tail(dests), updates)

\* self.update_queue[destination].append(update) for every destination
Enqueue(s, dests, updates) ==
    [s EXCEPT !.update_queue = QueueAppend(@, dests, updates),
              !.appended = Noted(@, dests, updates)]

\* a network_update that does not look the type name up in the type map
network_update_unchecked(s, update_type, entity_id, destinations, data, entity_type_string) ==
    IF s.exc # "none" THEN s
    ELSE IF update_type \notin {"create", "update", "delete"}
    THEN Raise(s, "InvalidUpdateType")
    ELSE IF update_type = "create" /\ entity_type_string = None
    THEN Raise(s, "MalformedUpdate")
    ELSE LET dests == IF destinations.given THEN destinations.list ELSE s.client_sockets
             update == Update(update_type, entity_id, entity_type_string, data)
         IN Enqueue(s, dests, <<update>>)

\* GamemodeServer.network_update
network_update(s, update_type, entity_id, destinations, data, entity_type_string) ==
    IF s.exc # "none" THEN s
    ELSE IF update_type \notin {"create", "update", "delete"}
    THEN Raise(s, "InvalidUpdateType")
    ELSE IF update_type = "create" /\ entity_type_string = None
    THEN Raise(s, "MalformedUpdate")
    ELSE IF update_type = "create" /\ entity_type_string \notin EntityTypeMap
    THEN Raise(s, "MalformedUpdate")
    ELSE LET dests == IF destinations.given THEN destinations.list ELSE s.client_sockets
             update == Update(update_type, entity_id, entity_type_string, data)
         IN Enqueue(s, dests, <<update>>)

\* a lookup that stops at the first key of the map
lookup_first_key(s, o) == "floor"

\* GamemodeServer.lookup_entity_type_string: the key of entity_type_map
\* whose class the entity is an instance of (every class is registered
\* under its own name)
HasTypeString(s, o) == s.heap[o].cls \in EntityTypeMap
lookup_entity_type_string(s, o) == s.heap[o].cls

\* a send that does not empty the list it sent
SendOneKeep(s, dest, updates) ==
    IF updates = <<>> THEN s
    ELSE IF ~InSeq(s.client_sockets, dest) THEN Raise(s, "KeyError")
    ELSE [s EXCEPT !.sent[dest] = Append(@, updates)]

\* a send that puts only the first update of the list on the socket
SendOneHead(s, dest, updates) ==
    IF updates = <<>> THEN s
    ELSE IF ~InSeq(s.client_sockets, dest) THEN Raise(s, "KeyError")
    ELSE [s EXCEPT !.sent[dest] = Append(@, <<Head(updates)>>),
                   !.update_queue = Put(@, dest, <<>>)]

\* one pass of the loop of send_client_updates: an empty list is passed
\* over; any other is sent as one message on the destination's socket
\* (self.client_sockets[...] raises KeyError without one) and replaced by []
SendOne(s, dest, updates) ==
    IF updates = <<>> THEN s
    ELSE IF ~InSeq(s.client_sockets, dest) THEN Raise(s, "KeyError")
    ELSE [s EXCEPT !.sent[dest] = Append(@, updates),
                   !.update_queue = Put(@, dest, <<>>)]

\* the loop of send_client_updates over a copy of the queue's items
RECURSIVE SendLoop(_, _)
SendLoop(s, items) ==
    IF s.exc # "none" \/ items = <<>> THEN s
    ELSE SendLoop(SendOne(s, Head(items)[1], Head(items)[2]), Tail(items))

\* history: the registry as create updates, one per entity, in registry order
RegistrySnapshot(s) ==
    [i \in 1..Len(s.entities) |->
        Update("create", s.entities[i][1], s.heap[s.entities[i][2]].cls,
               Serialize(s, s.entities[i][2]))]

\* GamemodeServer.send_client_updates
send_client_updates(s, ev) ==
    IF s.exc # "none" THEN s
    ELSE LET t == SendLoop(s, s.update_queue)
         IN [t EXCEPT !.flushes = Append(@, [on |-> ev.type,
                                             client |-> ev.client,
                                             registry |-> RegistrySnapshot(s),
                                             queue_before |-> s.update_queue,
                                             sent_before |-> s.sent,
                                             queue_after |-> t.update_queue,
                                             sent_after |-> t.sent,
                                             raised |-> t.exc # "none"])]

(***************************************************************************)
(* The event bus and the handlers.  trigger runs handlers, and handlers    *)
(* call trigger.                                                           *)
(***************************************************************************)
RECURSIVE trigger(_, _)

\* dict_diff: the keys whose value differs, with their current value
dict_diff(previous, current) ==
    [k \in DictKeys |-> IF previous[k] # current[k] THEN current[k] ELSE Absent]

\* a detect_updates that does not keep the first snapshot
detect_updates_unrecorded(s, o) ==
    IF ~CanSerialize(s, o) THEN Raise(s, "AttributeError")
    ELSE LET current_tick_dict == Serialize(s, o)
             last == s.heap[o].last_tick_dict
         IN IF last = EmptyDict
            THEN IF ~HasTypeString(s, o) THEN Raise(s, "KeyError")
                 ELSE LET s1 == network_update(s, "create", s.heap[o].id, NoDestinations,
                                               Serialize(s, o), lookup_entity_type_string(s, o))
                      IN s1
            ELSE LET s1 == IF current_tick_dict # last
                           THEN network_update(s, "update", s.heap[o].id, NoDestinations,
                                               dict_diff(last, current_tick_dict), None)
                           ELSE s
                 IN IF s1.exc # "none" THEN s1
                    ELSE [s1 EXCEPT !.heap[o].last_tick_dict = current_tick_dict]

\* a detect_updates that sends the whole current form as the update
detect_updates_whole(s, o) ==
    IF ~CanSerialize(s, o) THEN Raise(s, "AttributeError")
    ELSE LET current_tick_dict == Serialize(s, o)
             last == s.heap[o].last_tick_dict
         IN IF last = EmptyDict
            THEN IF ~HasTypeString(s, o) THEN Raise(s, "KeyError")
                 ELSE LET s1 == network_update(s, "create", s.heap[o].id, NoDestinations,
                                               Serialize(s, o), lookup_entity_type_string(s, o))
                      IN IF s1.exc # "none" THEN s1
                         ELSE [s1 EXCEPT !.heap[o].last_tick_dict = current_tick_dict]
            ELSE LET s1 == IF current_tick_dict # last
                           THEN network_update(s, "update", s.heap[o].id, NoDestinations,
                                               current_tick_dict, None)
                           ELSE s
                 IN IF s1.exc # "none" THEN s1
                    ELSE [s1 EXCEPT !.heap[o].last_tick_dict = current_tick_dict]

\* a detect_updates that sends an update without comparing
detect_updates_always(s, o) ==
    IF ~CanSerialize(s, o) THEN Raise(s, "AttributeError")
    ELSE LET current_tick_dict == Serialize(s, o)
             last == s.heap[o].last_tick_dict
         IN IF last = EmptyDict
            THEN IF ~HasTypeString(s, o) THEN Raise(s, "KeyError")
                 ELSE LET s1 == network_update(s, "create", s.heap[o].id, NoDestinations,
                                               Serialize(s, o), lookup_entity_type_string(s, o))
                      IN IF s1.exc # "none" THEN s1
                         ELSE [s1 EXCEPT !.heap[o].last_tick_dict = current_tick_dict]
            ELSE LET s1 == IF TRUE
                           THEN network_update(s, "update", s.heap[o].id, NoDestinations,
                                               dict_diff(last, current_tick_dict), None)
                           ELSE s
                 IN IF s1.exc # "none" THEN s1
                    ELSE [s1 EXCEPT !.heap[o].last_tick_dict = current_tick_dict]

\* Entity.detect_updates
detect_updates(s, o) ==
    IF ~CanSerialize(s, o) THEN Raise(s, "AttributeError")
    ELSE LET current_tick_dict == Serialize(s, o)
             last == s.heap[o].last_tick_dict
         IN IF last = EmptyDict
            THEN IF ~HasTypeString(s, o) THEN Raise(s, "KeyError")
                 ELSE LET s1 == network_update(s, "create", s.heap[o].id, NoDestinations,
                                               Serialize(s, o), lookup_entity_type_string(s, o))
                      IN IF s1.exc # "none" THEN s1
                         ELSE [s1 EXCEPT !.heap[o].last_tick_dict = current_tick_dict]
            ELSE LET s1 == IF current_tick_dict # last
                           THEN network_update(s, "update", s.heap[o].id, NoDestinations,
                                               dict_diff(last, current_tick_dict), None)
                           ELSE s
                 IN IF s1.exc # "none" THEN s1
                    ELSE [s1 EXCEPT !.heap[o].last_tick_dict = current_tick_dict]

\* history: one run of detect_updates
Detect(s, o) ==
    LET t == detect_updates(s, o)
    IN [t EXCEPT !.detects = Append(@, [id |-> s.heap[o].id,
                                        cls |-> s.heap[o].cls,
                                        connected |-> s.client_sockets,
                                        previous |-> s.heap[o].last_tick_dict,
                                        current |-> Serialize(s, o),
                                        queue_before |-> s.update_queue,
                                        queue_after |-> t.update_queue,
                                        snapshot_after |-> t.heap[o].last_tick_dict,
                                        raised |-> t.exc])]

\* GamemodeServer.measure_dt
measure_dt(s) == [s EXCEPT !.dt = clock - s.last_tick, !.last_tick = clock]

\* GamemodeServer.enable_socket
enable_socket(s) == [s EXCEPT !.listening = TRUE]

\* GamemodeServer.load_resources
load_resources(s) == trigger(s, Event("ResourcesLoaded"))

\* the ids the level's entities get
LevelFloor == "s1"
LevelPortal == "s2"

\* ArenaServer.start: the level, owned by the server
start(s) ==
    LET s1 == Construct(s, "floor", LevelFloor, ServerUuid, "r0", NoAttr, NoAttr)
    IN Construct(s1, "portal", LevelPortal, ServerUuid, "r0", NoAttr, NoAttr)

\* GamemodeServer.increment_tick_counter
increment_tick_counter(s) == [s EXCEPT !.tick_count = @ + 1]

\* a match statement whose delete case does not catch the KeyError
ApplyUpdateUncaught(s, update) ==
    LET done == [s EXCEPT !.loads[Len(s.loads)].applied = Append(@, update)]
    IN CASE update.update_type = "create" ->
              IF update.entity_type \notin EntityTypeMap THEN Raise(s, "KeyError")
              ELSE Create(done, update.entity_type, update.entity_id, update.data)
         [] update.update_type = "update" ->
              IF ~HasKey(s.entities, update.entity_id) THEN done
              ELSE ApplyDelta(done, Get(s.entities, update.entity_id), update.data)
         [] update.update_type = "delete" ->
              IF ~HasKey(s.entities, update.entity_id) THEN Raise(s, "KeyError")
              ELSE Kill(done, Get(s.entities, update.entity_id))
         [] OTHER -> done

\* a pass that looks the entity of an update up without the membership test
ApplyUpdateUnguarded(s, update) ==
    LET done == [s EXCEPT !.loads[Len(s.loads)].applied = Append(@, update)]
    IN CASE update.update_type = "create" ->
              IF update.entity_type \notin EntityTypeMap THEN Raise(s, "KeyError")
              ELSE Create(done, update.entity_type, update.entity_id, update.data)
         [] update.update_type = "update" ->
              IF ~HasKey(s.entities, update.entity_id) THEN Raise(s, "KeyError")
              ELSE ApplyDelta(done, Get(s.entities, update.entity_id), update.data)
         [] update.update_type = "delete" ->
              IF ~HasKey(s.entities, update.entity_id) THEN done
              ELSE Kill(done, Get(s.entities, update.entity_id))
         [] OTHER -> done

\* one pass of the match statement of load_updates
ApplyUpdate(s, update) ==
    LET done == [s EXCEPT !.loads[Len(s.loads)].applied = Append(@, update)]
    IN CASE update.update_type = "create" ->
              IF update.entity_type \notin EntityTypeMap THEN Raise(s, "KeyError")
              ELSE Create(done, update.entity_type, update.entity_id, update.data)
         [] update.update_type = "update" ->
              IF ~HasKey(s.entities, update.entity_id) THEN done
              ELSE ApplyDelta(done, Get(s.entities, update.entity_id), update.data)
         [] update.update_type = "delete" ->
              IF ~HasKey(s.entities, update.entity_id) THEN done
              ELSE Kill(done, Get(s.entities, update.entity_id))
         [] OTHER -> done

\* create writes the constructor's arguments into the dict it was handed:
\* the rect list becomes a Rect, the id of a weapon or of an owner an
\* Unresolved; an update or a delete is only read
Rewritten(update) ==
    IF update.update_type # "create" THEN update
    ELSE [update EXCEPT !.data.interaction_rect = "Rect(" \o @ \o ")",
                        !.data.weapon = IF @ \in {Absent, None} THEN @
                                        ELSE "Unresolved(" \o @ \o ")",
                        !.data.owner = IF @ \in {Absent, None} THEN @
                                       ELSE "Unresolved(" \o @ \o ")"]

\* a loop over self.updates_to_load itself: the dict a pass is handed is
\* the one the relay appended to the queues of the other clients
PassOnShared(s, update) ==
    [s EXCEPT !.loads[Len(s.loads)].copy = Append(@, Rewritten(update)),
              !.update_queue =
                  [i \in 1..Len(@) |->
                      <<@[i][1], [k \in 1..Len(@[i][2]) |->
                                     IF @[i][2][k] = update THEN Rewritten(update)
                                     ELSE @[i][2][k]]>>]]

\* for update in deepcopy(self.updates_to_load): the dict a pass is handed
\* belongs to the copy and to no list of the server (history: the copy as
\* the passes leave it)
PassOnCopy(s, update) ==
    [s EXCEPT !.loads[Len(s.loads)].copy = Append(@, Rewritten(update))]

\* the for loop of load_updates over the copy of updates_to_load (history:
\* the registry and the entity objects as each pass leaves them)
RECURSIVE ApplyLoop(_, _)
ApplyLoop(s, updates) ==
    IF s.exc # "none" \/ updates = <<>> THEN s
    ELSE LET t == ApplyUpdate(s, Head(updates))
         IN IF t.exc # "none" THEN t
            ELSE ApplyLoop(PassOnCopy([t EXCEPT !.loads[Len(t.loads)].registry = Append(@, t.entities),
                                                !.loads[Len(t.loads)].objects = Append(@, t.heap)],
                                      Head(updates)),
                           Tail(updates))

\* a resolution pass that ends at the first entity it resolved
RECURSIVE ResolveLoopFirst(_, _)
ResolveLoopFirst(s, items) ==
    IF s.exc # "none" \/ items = <<>> THEN s
    ELSE IF HoldsResolvable(s, Head(items)[2]) THEN Resolve(s, Head(items)[2])
    ELSE ResolveLoopFirst(Resolve(s, Head(items)[2]), Tail(items))

\* the resolution pass of load_updates over self.entities.values()
RECURSIVE ResolveLoop(_, _)
ResolveLoop(s, items) ==
    IF s.exc # "none" \/ items = <<>> THEN s
    ELSE ResolveLoop(Resolve(s, Head(items)[2]), Tail(items))

\* history: a run of load_updates as it starts, and as its resolution pass
\* has gone over the whole registry
LoadStarted(s) ==
    [queued |-> s.updates_to_load, applied |-> <<>>, registry |-> <<s.entities>>,
     objects |-> <<s.heap>>, placeholders |-> <<>>, resolved |-> FALSE,
     copy |-> <<>>]
\* history: the entity objects as the for loop of load_updates leaves them,
\* before the resolution pass
LoadApplied(s) ==
    IF s.exc # "none" THEN s ELSE [s EXCEPT !.loads[Len(s.loads)].placeholders = s.heap]
LoadResolved(s) ==
    IF s.exc # "none" THEN s ELSE [s EXCEPT !.loads[Len(s.loads)].resolved = TRUE]

\* a load_updates that dispatches UpdatesLoaded before its resolution pass
load_updates_early(s) ==
    LET s0 == [s EXCEPT !.loads = Append(@, LoadStarted(s))]
        s1 == ApplyLoop(s0, s0.updates_to_load)
        s2 == IF s1.exc # "none" THEN s1 ELSE [s1 EXCEPT !.updates_to_load = <<>>]
        s3 == IF s2.exc # "none" THEN s2 ELSE trigger(LoadApplied(s2), Event("UpdatesLoaded"))
    IN LoadResolved(ResolveLoop(s3, s3.entities))

\* GamemodeServer.load_updates
load_updates(s) ==
    LET s0 == [s EXCEPT !.loads = Append(@, LoadStarted(s))]
        s1 == ApplyLoop(s0, s0.updates_to_load)
        s2 == IF s1.exc # "none" THEN s1 ELSE [s1 EXCEPT !.updates_to_load = <<>>]
        s3 == LoadResolved(ResolveLoop(LoadApplied(s2), s2.entities))
    IN IF s3.exc # "none" THEN s3 ELSE trigger(s3, Event("UpdatesLoaded"))

\* a handle_new_client that queues nothing for the new client
SnapshotLoopNone(s, items, client_uuid) == s

\* the snapshot loop of handle_new_client over self.entities.values()
RECURSIVE SnapshotLoop(_, _, _)
SnapshotLoop(s, items, client_uuid) ==
    IF s.exc # "none" \/ items = <<>> THEN s
    ELSE LET o == Head(items)[2]
         IN IF ~HasTypeString(s, o) THEN Raise(s, "KeyError")
            ELSE IF ~CanSerialize(s, o) THEN Raise(s, "AttributeError")
            ELSE SnapshotLoop(network_update(s, "create", s.heap[o].id,
                                             Destinations(<<client_uuid>>), Serialize(s, o),
                                             lookup_entity_type_string(s, o)),
                              Tail(items), client_uuid)

\* GamemodeServer.handle_new_client
handle_new_client(s, ev) ==
    LET client_uuid == ev.client
        s1 == [s EXCEPT !.client_sockets = IF InSeq(@, client_uuid) THEN @
                                           ELSE Append(@, client_uuid)]
    IN IF Len(s1.entities) = 0
       THEN [s1 EXCEPT !.sent[client_uuid] = Append(@, <<>>)]
       ELSE send_client_updates(SnapshotLoop(s1, s1.entities, client_uuid), ev)

\* the loop of handle_client_disconnect over self.entities.copy().items()
RECURSIVE DisconnectLoop(_, _, _)
DisconnectLoop(s, items, client_uuid) ==
    IF s.exc # "none" \/ items = <<>> THEN s
    ELSE LET entity_uuid == Head(items)[1]
             o == Head(items)[2]
         IN IF s.heap[o].updater = client_uuid
            THEN DisconnectLoop(network_update([s EXCEPT !.entities = Del(@, entity_uuid)],
                                               "delete", entity_uuid,
                                               Destinations(s.client_sockets), EmptyDict, None),
                                Tail(items), client_uuid)
            ELSE DisconnectLoop(s, Tail(items), client_uuid)

\* GamemodeServer.handle_client_disconnect
handle_client_disconnect(s, ev) ==
    LET client_uuid == ev.client
        s1 == DisconnectLoop(s, s.entities, client_uuid)
    IN IF s1.exc # "none" THEN s1
       ELSE IF ~InSeq(s1.client_sockets, client_uuid) THEN Raise(s1, "KeyError")
       ELSE LET s2 == [s1 EXCEPT !.client_sockets = SelectSeq(@, LAMBDA c : c # client_uuid)]
            IN IF ~HasKey(s2.update_queue, client_uuid) THEN Raise(s2, "KeyError")
               ELSE [s2 EXCEPT !.update_queue = Del(@, client_uuid)]

\* GamemodeServer.accept_new_clients: accept raises BlockingIOError when no
\* connection waits
accept_new_clients(s) ==
    IF s.pending = <<>> THEN s
    ELSE trigger([s EXCEPT !.pending = Tail(@)], ClientEvent("NewClient", Head(s.pending)))

\* a server that relays a batch to nobody
ReceiversNone(s, sending_client_uuid) == <<>>

\* a relay that leaves out the test for the sender
ReceiversAll(s, sending_client_uuid) == s.client_sockets

\* the clients a batch read from sending_client_uuid is queued for
Receivers(s, sending_client_uuid) ==
    SelectSeq(s.client_sockets, LAMBDA c : c # sending_client_uuid)

\* one pass of the loop of receive_client_updates: recv_headered returns
\* the next framed message, raises Disconnected when the peer closed its
\* stream and nothing is left to read, raises BlockingIOError otherwise
RECURSIVE ReceiveLoop(_, _)
ReceiveLoop(s, senders) ==
    IF s.exc # "none" \/ senders = <<>> THEN s
    ELSE LET sending_client_uuid == Head(senders)
         IN IF s.inbox[sending_client_uuid] # <<>>
            THEN LET incoming_updates == Head(s.inbox[sending_client_uuid])
                     receivers == Receivers(s, sending_client_uuid)
                     s1 == Enqueue([s EXCEPT !.inbox[sending_client_uuid] = Tail(@),
                                             !.updates_to_load = @ \o incoming_updates],
                                   receivers, incoming_updates)
                     s2 == [s1 EXCEPT !.relays = Append(@, [sender |-> sending_client_uuid,
                                                           batch |-> incoming_updates,
                                                           connected |-> s.client_sockets,
                                                           load_before |-> s.updates_to_load,
                                                           load_after |-> s1.updates_to_load,
                                                           queue_before |-> s.update_queue,
                                                           queue_after |-> s1.update_queue])]
                 IN ReceiveLoop(s2, Tail(senders))
            ELSE IF sending_client_uuid \in closed
            THEN ReceiveLoop(trigger([s EXCEPT !.disconnects = Append(@, sending_client_uuid),
                                               !.disconnect_count[sending_client_uuid] = @ + 1],
                                     ClientEvent("DisconnectedClient", sending_client_uuid)),
                             Tail(senders))
            ELSE ReceiveLoop(s, Tail(senders))

\* GamemodeServer.receive_client_updates
receive_client_updates(s) ==
    LET s1 == ReceiveLoop(s, s.client_sockets)
    IN IF s1.exc # "none" THEN s1 ELSE trigger(s1, Event("ReceivedClientUpdates"))

\* the call function(event) of trigger
Call(s, h, ev) ==
    CASE h.fn = "measure_dt" -> measure_dt(s)
      [] h.fn = "enable_socket" -> enable_socket(s)
      [] h.fn = "load_resources" -> load_resources(s)
      [] h.fn = "start" -> start(s)
      [] h.fn = "load_updates" -> load_updates(s)
      [] h.fn = "send_client_updates" -> send_client_updates(s, ev)
      [] h.fn = "handle_new_client" -> handle_new_client(s, ev)
      [] h.fn = "handle_client_disconnect" -> handle_client_disconnect(s, ev)
      [] h.fn = "increment_tick_counter" -> increment_tick_counter(s)
      [] h.fn = "accept_new_clients" -> accept_new_clients(s)
      [] h.fn = "receive_client_updates" -> receive_client_updates(s)
      [] h.fn = "detect_updates" -> Detect(s, h.obj)
      [] OTHER -> s

\* a trigger without the test of the updater
DecideUnfiltered(s, h) ==
    IF h.obj = ServerObj
    THEN IF ServerBaseIsGamemodeServer(server_class) THEN "run" ELSE "raise"
    ELSE "run"

\* what trigger decides for one subscriber: "run" (the base class of the
\* object it is bound to is GamemodeServer, or its updater is self.uuid),
\* "skip" (its updater is another identity) or "raise" (the object has no
\* updater attribute)
Decide(s, h) ==
    IF h.obj = ServerObj
    THEN IF ServerBaseIsGamemodeServer(server_class) THEN "run" ELSE "raise"
    ELSE IF s.heap[h.obj].updater # ServerUuid THEN "skip" ELSE "run"

Seen(s, h, ev, decision) ==
    [ev |-> ev.type, obj |-> h.obj, fn |-> h.fn, decision |-> decision,
     updater |-> IF h.obj = ServerObj THEN "" ELSE s.heap[h.obj].updater,
     unapplied |-> IF s.loads = <<>> THEN 0
                   ELSE Len(s.loads[Len(s.loads)].queued) - Len(s.loads[Len(s.loads)].applied),
     resolvable |-> ResolvableCount(s)]

\* a loop over the subscribers from the last to the first
SubscriberAtReversed(s, ev, i) ==
    s.event_subscriptions[ev.type][Len(s.event_subscriptions[ev.type]) + 1 - i]

\* the i-th subscriber the for loop of trigger reaches
SubscriberAt(s, ev, i) == s.event_subscriptions[ev.type][i]

\* the loop of trigger over the live list self.event_subscriptions[type(event)]
RECURSIVE TriggerFrom(_, _, _)
TriggerFrom(s, ev, i) ==
    IF s.exc # "none" \/ i > Len(s.event_subscriptions[ev.type]) THEN s
    ELSE LET h == SubscriberAt(s, ev, i)
             decision == Decide(s, h)
             s1 == [s EXCEPT !.calls = Append(@, Seen(s, h, ev, decision))]
         IN CASE decision = "run" -> TriggerFrom(Call(s1, h, ev), ev, i + 1)
              [] decision = "skip" -> TriggerFrom(s1, ev, i + 1)
              [] OTHER -> Raise(s1, "AttributeError")

\* GamemodeServer.trigger
trigger(s, ev) ==
    IF s.exc # "none" THEN s
    ELSE TriggerFrom([s EXCEPT !.dispatched = Append(@, ev.type)], ev, 1)

(***************************************************************************)
(* What the peers send.                                                    *)
(***************************************************************************)
\* the ids a peer gives the entities it creates
Eid(c, n) == IF c = "c1" THEN (IF n = 1 THEN "a1" ELSE "a2") ELSE (IF n = 1 THEN "b1" ELSE "b2")

FloorData(c, rect) == [EmptyDict EXCEPT !.interaction_rect = rect, !.updater = c]
PlayerData(c, weapon) == [FloorData(c, "r0") EXCEPT !.weapon = weapon]
WeaponData(c, owner) == [FloorData(c, "r0") EXCEPT !.owner = owner]

\* the peer whose game is followed in full; every other peer only creates
\* its floor
PlayingPeer == "c1"
PlainSteps(c, at) ==
    IF at = "new"
    THEN { << <<Update("create", Eid(c, 1), "floor", FloorData(c, "r0"))>>, "made" >> }
    ELSE {}

\* what the playing peer's game does next, by how far it has got: it
\* creates its entities (a floor; or a weapon whose owner is created later
\* in the same batch; or a weapon alone; or an entity of a type the
\* server's map does not hold) or moves the level's floor, then moves its
\* first entity, or deletes it (once, or twice in one batch), or creates it
\* again, then deletes it.  Each choice is <<the batch it sends, how far it
\* has got then>>.
PeerSteps(c, at) ==
    IF c # PlayingPeer THEN PlainSteps(c, at) ELSE
    CASE at = "new" ->
            { << <<Update("create", Eid(c, 1), "floor", FloorData(c, "r0"))>>, "made" >>,
              << <<Update("create", Eid(c, 2), "shotgun", WeaponData(c, Eid(c, 1))),
                   Update("create", Eid(c, 1), "player", PlayerData(c, Eid(c, 2)))>>, "made" >>,
              << <<Update("create", Eid(c, 2), "shotgun", WeaponData(c, Eid(c, 1)))>>, "made" >>,
              << <<Update("create", Eid(c, 1), UnknownType, FloorData(c, "r0"))>>, "made" >>,
              << <<Update("update", LevelFloor, None,
                          [EmptyDict EXCEPT !.interaction_rect = "r1"])>>, "made" >> }
      [] at = "made" ->
            { << <<Update("update", Eid(c, 1), None,
                          [EmptyDict EXCEPT !.interaction_rect = "r1"])>>, "moved" >>,
              << <<Update("delete", Eid(c, 1), None, EmptyDict)>>, "gone" >>,
              << <<Update("delete", Eid(c, 1), None, EmptyDict),
                   Update("delete", Eid(c, 1), None, EmptyDict)>>, "gone" >>,
              << <<Update("create", Eid(c, 1), "floor", FloorData(c, "r1"))>>, "gone" >> }
      [] at = "moved" ->
            { << <<Update("delete", Eid(c, 1), None, EmptyDict)>>, "gone" >> }
      [] OTHER -> {}

(***************************************************************************)
(* The state after GamemodeServer.__init__ (and the gamemode's own).       *)
(***************************************************************************)
Init ==
    /\ pc = "start"
    /\ phase = 1
    /\ clock = StartClock
    /\ last_network_tick = 0
    /\ last_game_tick = 0
    /\ server_class \in ServerClasses
    /\ listening = FALSE
    /\ client_sockets = <<>>
    /\ entities = <<>>
    /\ heap = <<>>
    /\ updates_to_load = <<>>
    /\ update_queue = <<>>
    /\ event_subscriptions = GamemodeSubscriptions(server_class)
    /\ tick_count = 0
    /\ last_tick = StartClock
    /\ dt = 0
    /\ exc = "none"
    /\ pending = <<>>
    /\ inbox = [c \in Clients |-> <<>>]
    /\ closed = {}
    /\ sent = [c \in Clients |-> <<>>]
    /\ appended = [c \in Clients |-> <<>>]
    /\ script = [c \in Clients |-> "new"]
    /\ dispatched = <<>>
    /\ calls = <<>>
    /\ flushes = <<>>
    /\ relays = <<>>
    /\ loads = <<>>
    /\ disconnects = <<>>
    /\ disconnect_count = [c \in Clients |-> 0]
    /\ detects = <<>>
    /\ requests = <<>>
    /\ network_ticks = <<>>
    /\ sim_fired = FALSE

(***************************************************************************)
(* GamemodeServer.run                                                      *)
(***************************************************************************)
\* a run that dispatches TickComplete before Tick
SimPhasesSwapped == <<"TickStart", "TickComplete", "Tick">>

\* the events of one simulation tick, in the order run dispatches them
SimPhases == <<"TickStart", "Tick", "TickComplete">>

\* run unwinds when a handler raised
AfterDispatch(s, next) == IF s.exc # "none" THEN "crashed" ELSE next

\* self.trigger(ServerStart())
RunServerStart ==
    /\ pc = "start"
    /\ LET s == trigger(Cur, Event("ServerStart"))
       IN /\ Commit(s)
          /\ pc' = AfterDispatch(s, "sim_gate")
    /\ UNCHANGED <<phase, clock, last_network_tick, last_game_tick, server_class, closed, script, requests, network_ticks, sim_fired>>

\* the condition of the simulation gate
SimGateOpen == clock - last_game_tick >= SimPeriod

\* the top of the loop: if time.time() - last_game_tick >= 1/max_tick_rate
SimGateUpTo(ticks) ==
    /\ pc = "sim_gate"
    /\ tick_count < ticks
    /\ sim_fired' = SimGateOpen
    /\ pc' = IF SimGateOpen THEN "phase" ELSE "net_gate"
    /\ phase' = 1
    /\ dispatched' = <<>>
    /\ calls' = <<>>
    /\ flushes' = <<>>
    /\ relays' = <<>>
    /\ loads' = <<>>
    /\ disconnects' = <<>>
    /\ detects' = <<>>
    /\ UNCHANGED <<clock, last_network_tick, last_game_tick, server_class, listening,
                   client_sockets, entities, heap, updates_to_load, update_queue,
                   event_subscriptions, tick_count, last_tick, dt, exc, pending, inbox,
                   closed, sent, appended, disconnect_count, script, requests, network_ticks>>

\* the runs looked at are cut off after MaxTicks simulation ticks
SimGate == SimGateUpTo(MaxTicks)

\* one of the three trigger calls inside the simulation gate
RunPhase ==
    /\ pc = "phase"
    /\ LET s == trigger(Cur, Event(SimPhases[phase]))
       IN /\ Commit(s)
          /\ pc' = AfterDispatch(s, IF phase < Len(SimPhases) THEN "phase" ELSE "net_gate")
    /\ phase' = IF phase < Len(SimPhases) THEN phase + 1 ELSE 1
    /\ UNCHANGED <<clock, last_network_tick, last_game_tick, server_class, closed, script, requests, network_ticks, sim_fired>>

\* a network gate that opens after the simulation period
NetGateOpenBySimPeriod == clock - last_network_tick >= SimPeriod

\* the condition of the network gate
NetGateOpen == clock - last_network_tick >= NetPeriod

\* if time.time() - last_network_tick >= 1/network_tick_rate
NetGate ==
    /\ pc = "net_gate"
    /\ pc' = IF NetGateOpen THEN "network_tick" ELSE "sim_gate"
    /\ UNCHANGED <<phase, clock, last_network_tick, last_game_tick, server_class, listening,
                   client_sockets, entities, heap, updates_to_load, update_queue,
                   event_subscriptions, tick_count, last_tick, dt, exc, pending, inbox, closed, sent, appended, disconnect_count, script,
                   dispatched, calls, flushes, relays, loads, disconnects, detects, requests, network_ticks,
                   sim_fired>>

\* self.trigger(NetworkTick()); last_network_tick = time.time()
RunNetworkTick ==
    /\ pc = "network_tick"
    /\ LET s == trigger(Cur, Event("NetworkTick"))
       IN /\ Commit(s)
          /\ pc' = AfterDispatch(s, "sim_gate")
    /\ last_network_tick' = clock
    /\ network_ticks' = Append(network_ticks, clock)
    /\ UNCHANGED <<phase, clock, last_game_tick, server_class, closed, script, requests, sim_fired>>

(***************************************************************************)
(* The environment.  The server reads its sockets inside Tick only, so the  *)
(* peers act while the loop is at its top.  The loop polls the clock more  *)
(* often than the clock ticks: time passes, one unit at a time, while the  *)
(* loop waits at a closed network gate.                                    *)
(***************************************************************************)
Advance ==
    /\ pc = "net_gate"
    /\ clock - last_network_tick < NetPeriod
    /\ clock' = clock + 1
    /\ UNCHANGED <<pc, phase, last_network_tick, last_game_tick, server_class, listening,
                   client_sockets, entities, heap, updates_to_load, update_queue,
                   event_subscriptions, tick_count, last_tick, dt, exc, pending, inbox, closed, sent, appended, disconnect_count, script,
                   dispatched, calls, flushes, relays, loads, disconnects, detects, requests, network_ticks,
                   sim_fired>>

\* a peer connects and sends its identity; the server has not seen this
\* identity before
Connect(c) ==
    /\ pc = "sim_gate"
    /\ listening
    /\ ~InSeq(client_sockets, c)
    /\ ~InSeq(pending, c)
    /\ c \notin closed
    /\ pending' = Append(pending, c)
    /\ UNCHANGED <<pc, phase, clock, last_network_tick, last_game_tick, server_class, listening,
                   client_sockets, entities, heap, updates_to_load, update_queue,
                   event_subscriptions, tick_count, last_tick, dt, exc, inbox, closed, sent, appended, disconnect_count, script,
                   dispatched, calls, flushes, relays, loads, disconnects, detects, requests, network_ticks,
                   sim_fired>>

\* a peer sends one framed batch
Send(c, step) ==
    /\ pc = "sim_gate"
    /\ InSeq(client_sockets, c) \/ InSeq(pending, c)
    /\ c \notin closed
    /\ Len(inbox[c]) < MaxInbox
    /\ inbox' = [inbox EXCEPT ![c] = Append(@, step[1])]
    /\ script' = [script EXCEPT ![c] = step[2]]
    /\ UNCHANGED <<pc, phase, clock, last_network_tick, last_game_tick, server_class, listening,
                   client_sockets, entities, heap, updates_to_load, update_queue,
                   event_subscriptions, tick_count, last_tick, dt, exc, pending, closed, sent, appended, disconnect_count,
                   dispatched, calls, flushes, relays, loads, disconnects, detects, requests, network_ticks,
                   sim_fired>>

\* a peer closes its stream
Close(c) ==
    /\ pc = "sim_gate"
    /\ InSeq(client_sockets, c)
    /\ c \notin closed
    /\ closed' = closed \cup {c}
    /\ UNCHANGED <<pc, phase, clock, last_network_tick, last_game_tick, server_class, listening,
                   client_sockets, entities, heap, updates_to_load, update_queue,
                   event_subscriptions, tick_count, last_tick, dt, exc, pending, inbox, sent, appended, disconnect_count, script,
                   dispatched, calls, flushes, relays, loads, disconnects, detects, requests, network_ticks,
                   sim_fired>>

Next ==
    \/ RunServerStart
    \/ SimGate
    \/ RunPhase
    \/ NetGate
    \/ RunNetworkTick
    \/ Advance
    \/ \E c \in Clients : Connect(c)
    \/ \E c \in Clients : \E step \in PeerSteps(c, script[c]) : Send(c, step)
    \/ \E c \in Clients : Close(c)

Spec == Init /\ [][Next]_vars

\* the loop of run can take its next step: it is at a trigger call or at a
\* gate (the simulation ticks of a run are cut off at MaxTicks)
LoopCanStep ==
    \/ pc \in {"start", "phase", "net_gate", "network_tick"}
    \/ pc = "sim_gate" /\ tick_count < MaxTicks

\* a step of the loop of run, told by what every such step changes and no
\* step of a peer does: the place of the loop, or the clock it reads
LoopSteps ==
    /\ LoopCanStep
    /\ pc' \in {"start", "sim_gate", "phase", "net_gate", "network_tick", "crashed"}
    /\ phase' \in 1..Len(SimPhases)
    /\ clock' \in {clock, clock + 1}
    /\ <<pc', phase', clock'>> # <<pc, phase, clock>>

\* run is a while True loop of one process that is scheduled: while the loop
\* can take its next step, it takes it; nothing makes a peer connect, send or
\* close
FairSpec == Spec /\ WF_<<pc, phase, clock>>(LoopSteps)

(***************************************************************************)
(* Longer runs of the same loop with quiet peers: peers connect and close  *)
(* their stream and send nothing, and the loop runs MaxPolls simulation    *)
(* ticks, enough for a closed stream to be polled in several of them.      *)
(***************************************************************************)
MaxPolls == 3

PollInit == Init /\ server_class \in {"PlainServer", "ArenaServer"}

PollNext ==
    \/ RunServerStart
    \/ SimGateUpTo(MaxPolls)
    \/ RunPhase
    \/ NetGate
    \/ RunNetworkTick
    \/ Advance
    \/ \E c \in Clients : Connect(c)
    \/ \E c \in Clients : Close(c)

PollSpec == PollInit /\ [][PollNext]_vars

(***************************************************************************)
(* network_update as a gamemode's own code calls it ("explicit delete       *)
(* calls" and the like): a server with some clients connected, and calls   *)
(* with every kind of argument.                                            *)
(***************************************************************************)
\* calls followed
MaxRequests == 2

UpdateTypes == {"create", "update", "delete", "move"}
TypeStrings == {None, "floor", UnknownType}
DestinationChoices == {NoDestinations, Destinations(<<"c1">>), Destinations(<<"c2", "c1">>)}

GamemodeInit ==
    /\ pc = "gamemode"
    /\ phase = 1
    /\ clock = StartClock
    /\ last_network_tick = 0
    /\ last_game_tick = 0
    /\ server_class = "ArenaServer"
    /\ listening = TRUE
    /\ client_sockets \in {<<>>, <<"c1">>, <<"c1", "c2">>}
    /\ entities = <<>>
    /\ heap = <<>>
    /\ updates_to_load = <<>>
    /\ update_queue = <<>>
    /\ event_subscriptions = GamemodeSubscriptions(server_class)
    /\ tick_count = 0
    /\ last_tick = StartClock
    /\ dt = 0
    /\ exc = "none"
    /\ pending = <<>>
    /\ inbox = [c \in Clients |-> <<>>]
    /\ closed = {}
    /\ sent = [c \in Clients |-> <<>>]
    /\ appended = [c \in Clients |-> <<>>]
    /\ script = [c \in Clients |-> "new"]
    /\ dispatched = <<>>
    /\ calls = <<>>
    /\ flushes = <<>>
    /\ relays = <<>>
    /\ loads = <<>>
    /\ disconnects = <<>>
    /\ disconnect_count = [c \in Clients |-> 0]
    /\ detects = <<>>
    /\ requests = <<>>
    /\ network_ticks = <<>>
    /\ sim_fired = FALSE

\* self.network_update(...) called from a gamemode's code; an exception it
\* raises is not caught
NetworkUpdateCall(update_type, destinations, entity_type_string) ==
    /\ pc = "gamemode"
    /\ Len(requests) < MaxRequests
    /\ LET s == network_update(Cur, update_type, LevelFloor, destinations, EmptyDict,
                               entity_type_string)
       IN /\ Commit(s)
          /\ pc' = AfterDispatch(s, "gamemode")
          /\ requests' = Append(requests, [update_type |-> update_type,
                                            entity_type_string |-> entity_type_string,
                                            destinations |-> destinations,
                                            connected |-> client_sockets,
                                            queue_before |-> update_queue,
                                            queue_after |-> s.update_queue,
                                            raised |-> s.exc])
    /\ UNCHANGED <<phase, clock, last_network_tick, last_game_tick, server_class, closed,
                   script, network_ticks, sim_fired>>

GamemodeNext ==
    \E update_type \in UpdateTypes : \E destinations \in DestinationChoices :
        \E entity_type_string \in TypeStrings :
            NetworkUpdateCall(update_type, destinations, entity_type_string)

GamemodeSpec == GamemodeInit /\ [][GamemodeNext]_vars

(***************************************************************************)
(* Entities a gamemode's own code constructs, without giving them an id,   *)
(* and update batches that set their reference attributes.                 *)
(***************************************************************************)
\* entities constructed
MaxLocal == 3

\* str(uuid.uuid4()) evaluated in the body of Entity.__init__: a value no
\* earlier call returned
FreshUuids == <<"u1", "u2", "u3", "u4">>
Uuid4(s) == FreshUuids[Len(s.heap) + 1]

\* uuid=str(uuid.uuid4()) in the parameter list of a constructor: evaluated
\* once, when the def statement of the class runs; every call that gives no
\* uuid gets this value
ClassUuid(cls) == IF cls = "floor" THEN LevelFloor ELSE "s3"

\* the classes constructed here: Floor and Player of the arena gamemode,
\* whose constructors have the default in their parameter list, and the
\* classes of the test gamemode, whose constructors pass id=None on to
\* Entity.__init__
LocalClasses == {"floor", "player", TestPlayer, TestWeapon, TestBullet}
DefaultId(s, cls) == IF cls \in {"floor", "player"} THEN ClassUuid(cls) ELSE Uuid4(s)

EntityInit ==
    /\ pc = "entity"
    /\ phase = 1
    /\ clock = StartClock
    /\ last_network_tick = 0
    /\ last_game_tick = 0
    /\ server_class = "PlainServer"
    /\ listening = TRUE
    /\ client_sockets = <<>>
    /\ entities = <<>>
    /\ heap = <<>>
    /\ updates_to_load = <<>>
    /\ update_queue = <<>>
    /\ event_subscriptions = GamemodeSubscriptions(server_class)
    /\ tick_count = 0
    /\ last_tick = StartClock
    /\ dt = 0
    /\ exc = "none"
    /\ pending = <<>>
    /\ inbox = [c \in Clients |-> <<>>]
    /\ closed = {}
    /\ sent = [c \in Clients |-> <<>>]
    /\ appended = [c \in Clients |-> <<>>]
    /\ script = [c \in Clients |-> "new"]
    /\ dispatched = <<>>
    /\ calls = <<>>
    /\ flushes = <<>>
    /\ relays = <<>>
    /\ loads = <<>>
    /\ disconnects = <<>>
    /\ disconnect_count = [c \in Clients |-> 0]
    /\ detects = <<>>
    /\ requests = <<>>
    /\ network_ticks = <<>>
    /\ sim_fired = FALSE

\* history kept of the latest step only
Fresh(s) == [s EXCEPT !.loads = <<>>, !.flushes = <<>>, !.dispatched = <<>>, !.calls = <<>>]

\* cls(game=self, updater=...) with no id given: the reference attributes get
\* their default None
ConstructLocal(cls) ==
    /\ pc = "entity"
    /\ Len(heap) < MaxLocal
    /\ Commit(Construct(Fresh(Cur), cls, DefaultId(Cur, cls), ServerUuid, "r0",
                        IF cls \in HasWeapon THEN NoRef ELSE NoAttr,
                        IF cls \in HasOwner THEN NoRef ELSE NoAttr))
    /\ UNCHANGED <<pc, phase, clock, last_network_tick, last_game_tick, server_class, closed,
                   script, requests, network_ticks, sim_fired>>

\* the deltas that set a reference attribute of an entity of the registry to
\* the id of an entity of the registry, each as a batch of one update
ReferenceUpdates ==
    {<<Update("update", entities[i][1], None, [EmptyDict EXCEPT !.weapon = entities[j][1]])>> :
        i \in {n \in 1..Len(entities) : heap[entities[n][2]].cls \in HasWeapon},
        j \in 1..Len(entities)}
    \cup
    {<<Update("update", entities[i][1], None, [EmptyDict EXCEPT !.owner = entities[j][1]])>> :
        i \in {n \in 1..Len(entities) : heap[entities[n][2]].cls \in HasOwner},
        j \in 1..Len(entities)}

\* a batch arrives in updates_to_load and load_updates runs
LoadUpdates(batch) ==
    /\ pc = "entity"
    /\ LET s == load_updates([Fresh(Cur) EXCEPT !.updates_to_load = batch])
       IN /\ Commit(s)
          /\ pc' = AfterDispatch(s, "entity")
    /\ UNCHANGED <<phase, clock, last_network_tick, last_game_tick, server_class, closed,
                   script, requests, network_ticks, sim_fired>>

EntityNext ==
    \/ \E cls \in LocalClasses : ConstructLocal(cls)
    \/ \E batch \in ReferenceUpdates : LoadUpdates(batch)

EntitySpec == EntityInit /\ [][EntityNext]_vars

(***************************************************************************)
(* Properties.                                                             *)
(***************************************************************************)
SimEvents == {"TickStart", "Tick", "TickComplete"}
SimDispatched == SelectSeq(dispatched, LAMBDA e : e \in SimEvents)
IsPrefix(a, b) == Len(a) <= Len(b) /\ SubSeq(b, 1, Len(a)) = a
Range(q) == {q[i] : i \in 1..Len(q)}

\* C1: in a loop iteration whose simulation gate fired, TickStart, Tick and
\* TickComplete are dispatched in that order, once each, and all three
\* before the network gate is examined (and before NetworkTick); an
\* iteration cut short by a handler that raised has dispatched a prefix of
\* the three.
C1_SimPhasesInOrder ==
    /\ IsPrefix(SimDispatched, <<"TickStart", "Tick", "TickComplete">>)
    /\ (sim_fired /\ pc \in {"net_gate", "network_tick", "sim_gate"})
          => SimDispatched = <<"TickStart", "Tick", "TickComplete">>
    /\ (sim_fired /\ pc = "phase") => Len(SimDispatched) = phase - 1
    /\ \A i \in 1..Len(dispatched) :
          dispatched[i] = "NetworkTick" =>
              /\ \A j \in 1..Len(dispatched) : dispatched[j] \in SimEvents => j < i
              /\ sim_fired => Len(SimDispatched) = 3

C1_Witness ==
    /\ pc = "net_gate"
    /\ sim_fired
    /\ tick_count = 2
    /\ "UpdatesLoaded" \in Range(dispatched)

\* C2: a run of load_updates applies the queued updates in arrival order,
\* then resolves, then dispatches UpdatesLoaded: an UpdatesLoaded subscriber
\* runs only when no update of the load is unapplied and no registry entity
\* holds an Unresolved whose id is in the registry, and the flush it makes
\* finds the inbound list empty.
C2_LoadThenResolveThenNotify ==
    /\ \A i \in 1..Len(loads) :
          /\ IsPrefix(loads[i].applied, loads[i].queued)
          /\ pc # "crashed" => loads[i].applied = loads[i].queued
    /\ \A i \in 1..Len(calls) :
          (calls[i].ev = "UpdatesLoaded" /\ calls[i].decision = "run") =>
              /\ calls[i].unapplied = 0
              /\ calls[i].resolvable = 0
    /\ pc # "crashed" =>
          Len(SelectSeq(dispatched, LAMBDA e : e = "UpdatesLoaded")) = Len(loads)
    /\ pc = "crashed" =>
          Len(SelectSeq(dispatched, LAMBDA e : e = "UpdatesLoaded")) \in {Len(loads) - 1, Len(loads)}

C2_Witness ==
    /\ \E i \in 1..Len(loads) : Len(loads[i].queued) >= 2 /\ loads[i].applied = loads[i].queued
    /\ \E i \in 1..Len(calls) : calls[i].ev = "UpdatesLoaded" /\ calls[i].decision = "run"
    /\ \E o \in 1..Len(heap) : heap[o].owner.kind = "live"

\* C3: after a tick in which the poll of a client raised Disconnected, the
\* client is no key of client_sockets nor of update_queue and the registry
\* holds no entity whose updater it is.
C3_DisconnectHandled ==
    pc = "net_gate" =>
        \A i \in 1..Len(disconnects) :
            /\ ~InSeq(client_sockets, disconnects[i])
            /\ ~HasKey(update_queue, disconnects[i])
            /\ \A j \in 1..Len(entities) : heap[entities[j][2]].updater # disconnects[i]

\* C4: a batch read from client X is appended to updates_to_load and, the
\* same updates in the same order, to the queue of every other connected
\* client, and the queue of X is left as it was.
C4_RelayToOthers ==
    \A i \in 1..Len(relays) :
        LET r == relays[i]
        IN /\ r.load_after = r.load_before \o r.batch
           /\ \A c \in Clients :
                 IF InSeq(r.connected, c) /\ c # r.sender
                 THEN /\ HasKey(r.queue_after, c)
                      /\ Get(r.queue_after, c) = QueueOf(r.queue_before, c) \o r.batch
                 ELSE /\ HasKey(r.queue_after, c) = HasKey(r.queue_before, c)
                      /\ QueueOf(r.queue_after, c) = QueueOf(r.queue_before, c)

C4_Witness ==
    /\ Len(relays) = 2
    /\ Len(relays[2].connected) = 2
    /\ Len(relays[2].batch) = 2
    /\ QueueOf(relays[2].queue_before, relays[2].sender) # <<>>

\* C5: the flush of handle_new_client, made when the registry holds
\* entities, sends the new client its first message, and that message is
\* one create update per entity of the registry, with the entity's
\* serialized data and type name, and nothing else.
C5_LateJoinSnapshot ==
    \A i \in 1..Len(flushes) :
        LET f == flushes[i]
        IN (f.on = "NewClient" /\ ~f.raised) =>
              /\ f.sent_before[f.client] = <<>>
              /\ f.sent_after[f.client] = <<f.registry>>
              /\ f.registry # <<>>
              /\ \A k \in 1..Len(f.registry) :
                    /\ f.registry[k].update_type = "create"
                    /\ f.registry[k].entity_type \in EntityTypeMap
                    /\ \A j \in 1..Len(f.registry) :
                          f.registry[j].entity_id = f.registry[k].entity_id => j = k

C5_Witness ==
    \E i \in 1..Len(flushes) :
        /\ flushes[i].on = "NewClient"
        /\ Len(flushes[i].registry) >= 3
        /\ flushes[i].sent_after[flushes[i].client] = <<flushes[i].registry>>
        /\ \E k \in 1..Len(flushes[i].registry) : flushes[i].registry[k].entity_type = "player"

\* C6: a run of send_client_updates sends every non-empty queue to its
\* client as one message holding all its updates and leaves it empty, and
\* sends nothing to a destination whose queue is empty or missing.
C6_FlushSendsAndClears ==
    \A i \in 1..Len(flushes) :
        LET f == flushes[i]
        IN ~f.raised =>
              \A c \in Clients :
                  IF QueueOf(f.queue_before, c) # <<>>
                  THEN /\ f.sent_after[c] = Append(f.sent_before[c], Get(f.queue_before, c))
                       /\ Get(f.queue_after, c) = <<>>
                  ELSE /\ f.sent_after[c] = f.sent_before[c]
                       /\ QueueOf(f.queue_after, c) = <<>>

C6_Witness ==
    \E i \in 1..Len(flushes) :
        /\ ~flushes[i].raised
        /\ \E c \in Clients : Len(QueueOf(flushes[i].queue_before, c)) >= 2
        /\ \E c \in Clients : HasKey(flushes[i].queue_before, c)
                                /\ Get(flushes[i].queue_before, c) = <<>>

\* C7: apart from the late-join flush to the new client, a message is sent
\* to a client only in the dispatch of NetworkTick.
C7_SentOnlyAtNetworkTick ==
    \A i \in 1..Len(flushes) :
        \A c \in Clients :
            flushes[i].sent_after[c] # flushes[i].sent_before[c] =>
                \/ flushes[i].on = "NetworkTick"
                \/ flushes[i].on = "NewClient" /\ flushes[i].client = c

\* The subscribers one dispatch of an event type ran, those of its list that
\* pass the ownership test, and the number of dispatches since the gate.
Ran(type) ==
    LET seen == SelectSeq(calls, LAMBDA e : e.ev = type /\ e.decision = "run")
    IN [i \in 1..Len(seen) |-> Handler(seen[i].obj, seen[i].fn)]
Passing(type) ==
    SelectSeq(event_subscriptions[type], LAMBDA h : Decide(Cur, h) = "run")
Times(type) == Len(SelectSeq(dispatched, LAMBDA e : e = type))
\* C8: one trigger call runs the subscribers of its event type that pass
\* the ownership test in subscription order, once each, and runs no
\* subscriber of another event type.
C8_SubscriptionOrder ==
    \A type \in EventTypes :
        /\ Times(type) <= 1 \/ event_subscriptions[type] = <<>>
        /\ Times(type) = 0 => Ran(type) = <<>>
        /\ IsPrefix(Ran(type), Passing(type))
        /\ (Times(type) = 1 /\ pc # "crashed") => Ran(type) = Passing(type)

C8_Witness ==
    /\ pc = "net_gate"
    /\ Len(Ran("Tick")) = 3
    /\ Len(event_subscriptions["Tick"]) > 3
    /\ Len(Ran("TickComplete")) = 2
    /\ Len(event_subscriptions["TickComplete"]) > 2

\* C9: trigger runs a subscriber bound to an entity exactly when the
\* entity's updater is "server": a subscriber of an entity whose updater is
\* a client is passed over, so the change detection of a client's entity
\* never runs on the server (it never gets a snapshot).
C9_OnlyServerOwnedRun ==
    /\ \A i \in 1..Len(calls) :
          calls[i].obj # ServerObj =>
              /\ calls[i].decision = "run" <=> calls[i].updater = ServerUuid
              /\ calls[i].updater \in Clients => calls[i].decision = "skip"
    /\ \A o \in 1..Len(heap) :
          heap[o].updater \in Clients => heap[o].last_tick_dict = EmptyDict

C9_Witness ==
    /\ \E i \in 1..Len(calls) :
          calls[i].fn = "detect_updates" /\ calls[i].updater \in Clients
            /\ calls[i].decision = "skip"
    /\ \E i \in 1..Len(calls) :
          calls[i].fn = "detect_updates" /\ calls[i].updater = ServerUuid
            /\ calls[i].decision = "run"
    /\ \E i \in 1..Len(calls) :
          calls[i].fn = "handle_keys" /\ calls[i].decision = "skip"

\* C10: trigger runs every subscriber bound to the server object, whatever
\* class the server object is an instance of, and raises nothing doing so.
C10_ServerSubscribersRun ==
    /\ \A i \in 1..Len(calls) : calls[i].obj = ServerObj => calls[i].decision = "run"
    /\ exc # "AttributeError"

\* an update's data names the entity id in one of its reference attributes
Refers(update, id) == update.data.owner = id \/ update.data.weapon = id

\* C11: when one batch holds a create for B whose data refers to A by id and,
\* later in the batch, the create for A, then once load_updates is through
\* both are in the registry and B's referring attribute holds the live A
\* object, not an Unresolved.
C11_ForwardReferenceResolved ==
    \A i \in 1..Len(loads) :
        loads[i].resolved =>
            \A k \in 1..Len(loads[i].queued) : \A j \in 1..Len(loads[i].queued) :
                LET b == loads[i].queued[k]
                    a == loads[i].queued[j]
                IN (k < j /\ b.update_type = "create" /\ a.update_type = "create"
                      /\ Refers(b, a.entity_id)) =>
                       /\ HasKey(entities, a.entity_id)
                       /\ HasKey(entities, b.entity_id)
                       /\ b.data.owner = a.entity_id =>
                              heap[Get(entities, b.entity_id)].owner
                                  = Live(Get(entities, a.entity_id))
                       /\ b.data.weapon = a.entity_id =>
                              heap[Get(entities, b.entity_id)].weapon
                                  = Live(Get(entities, a.entity_id))

C11_Witness ==
    /\ pc = "net_gate"
    /\ \E i \in 1..Len(loads) :
          /\ loads[i].resolved
          /\ \E k \in 1..Len(loads[i].queued) : \E j \in 1..Len(loads[i].queued) :
                /\ k < j
                /\ loads[i].queued[k].update_type = "create"
                /\ loads[i].queued[j].update_type = "create"
                /\ loads[i].queued[k].data.owner = loads[i].queued[j].entity_id
    /\ \E o \in 1..Len(heap) : heap[o].cls = "shotgun" /\ heap[o].owner.kind = "live"

\* C12: a resolution pass that meets an Unresolved whose id is not in the
\* registry raises nothing: once the batch is applied the pass goes over
\* the whole registry, and it leaves no Unresolved whose id is in the
\* registry.
C12_DanglingReferenceFailsSilently ==
    \A i \in 1..Len(loads) :
        loads[i].applied = loads[i].queued =>
            /\ loads[i].resolved
            /\ ResolvableCount(Cur) = 0

\* C13: a create whose entity_type is no key of the type map is dropped and
\* the load goes on: the loop passes over every entry of the batch, the
\* inbound list is cleared, the resolution pass and UpdatesLoaded happen,
\* and the registry gains no entity under the dropped entry's id.
C13_UnknownTypeDropped ==
    \A i \in 1..Len(loads) :
        \A k \in 1..Len(loads[i].queued) :
            LET u == loads[i].queued[k]
            IN (u.update_type = "create" /\ u.entity_type \notin EntityTypeMap) =>
                  /\ Len(loads[i].registry) = Len(loads[i].queued) + 1
                  /\ loads[i].registry[k + 1] = loads[i].registry[k]
                  /\ updates_to_load = <<>>
                  /\ loads[i].resolved
                  /\ "UpdatesLoaded" \in Range(dispatched)

\* C14: a create for an id the registry already holds fails with an error
\* (the load stops at that entry) and the registry still maps the id to
\* the entity it held before.
C14_DuplicateIdRejected ==
    \A i \in 1..Len(loads) :
        \A k \in 1..Len(loads[i].queued) :
            LET u == loads[i].queued[k]
            IN (k <= Len(loads[i].registry) /\ u.update_type = "create"
                  /\ HasKey(loads[i].registry[k], u.entity_id)) =>
                     /\ Len(loads[i].registry) = k
                     /\ exc # "none"
                     /\ HasKey(entities, u.entity_id)
                     /\ Get(entities, u.entity_id) = Get(loads[i].registry[k], u.entity_id)

\* C15: a delete for an id that is not in the registry raises nothing and
\* leaves the registry as it was; so the second of two deletes of one id
\* leaves the registry as the first left it.
C15_DeleteAbsentIsNoOp ==
    \A i \in 1..Len(loads) :
        \A k \in 1..Len(loads[i].queued) :
            LET u == loads[i].queued[k]
                reached == k <= Len(loads[i].registry) /\ u.update_type = "delete"
            IN /\ (reached /\ ~HasKey(loads[i].registry[k], u.entity_id)) =>
                     /\ Len(loads[i].registry) > k
                     /\ loads[i].registry[k + 1] = loads[i].registry[k]
               /\ (reached /\ k > 1 /\ loads[i].queued[k - 1] = u) =>
                     /\ Len(loads[i].registry) > k
                     /\ loads[i].registry[k + 1] = loads[i].registry[k]

C15_Witness ==
    \E i \in 1..Len(loads) :
        /\ Len(loads[i].queued) = 2
        /\ loads[i].queued[1].update_type = "delete"
        /\ loads[i].queued[2] = loads[i].queued[1]
        /\ HasKey(loads[i].registry[1], loads[i].queued[1].entity_id)
        /\ ~HasKey(loads[i].registry[2], loads[i].queued[1].entity_id)
        /\ Len(loads[i].registry) = 3
        /\ loads[i].resolved

\* C16: network_update raises InvalidUpdateType for a kind that is none of
\* create, update, delete, and MalformedUpdate for a create whose type name
\* is missing or is no key of the type map; a call that raises appends
\* nothing to any queue.
C16_NetworkUpdateGuards ==
    \A i \in 1..Len(requests) :
        LET r == requests[i]
        IN /\ r.update_type \notin {"create", "update", "delete"} =>
                 r.raised = "InvalidUpdateType"
           /\ (r.update_type = "create"
                 /\ (r.entity_type_string = None \/ r.entity_type_string \notin EntityTypeMap)) =>
                 r.raised = "MalformedUpdate"
           /\ r.raised # "none" => r.queue_after = r.queue_before

C16_Witness ==
    /\ Len(requests) = 2
    /\ requests[1].raised = "none"
    /\ requests[2].queue_before # <<>>
    /\ requests[2].update_type = "create"
    /\ requests[2].entity_type_string = UnknownType
    /\ requests[2].raised = "MalformedUpdate"
    /\ exc = "MalformedUpdate"

\* C17: at the first TickComplete of a server-owned entity (it has no
\* snapshot yet) detect_updates queues, for every client connected then and
\* for no other, exactly one create with the entity's full serialized form
\* and its type name, queues no update entry, and keeps the form as the
\* entity's snapshot.
C17_FirstTickCreate ==
    \A i \in 1..Len(detects) :
        LET d == detects[i]
        IN d.previous = EmptyDict =>
              /\ d.raised = "none"
              /\ d.snapshot_after = d.current
              /\ \A c \in Clients :
                    QueueOf(d.queue_after, c) =
                        IF InSeq(d.connected, c)
                        THEN QueueOf(d.queue_before, c)
                                 \o <<Update("create", d.id, d.cls, d.current)>>
                        ELSE QueueOf(d.queue_before, c)

C17_Witness ==
    \E i \in 1..Len(detects) :
        /\ detects[i].previous = EmptyDict
        /\ detects[i].connected # <<>>
        /\ detects[i].current.interaction_rect = "r1"
        /\ detects[i].snapshot_after = detects[i].current

\* the attributes in which two serialized forms differ
Changed(previous, current) == {k \in DictKeys : previous[k] # current[k]}

\* C18: at a TickComplete where a server-owned entity's serialized form
\* differs from its snapshot in the attribute set S, detect_updates queues
\* one update whose data holds exactly the keys of S, each with its
\* current value.
C18_UpdateCarriesChangedKeys ==
    \A i \in 1..Len(detects) :
        LET d == detects[i]
            S == Changed(d.previous, d.current)
        IN (d.previous # EmptyDict /\ S # {}) =>
              /\ d.raised = "none"
              /\ \A c \in Clients :
                    IF InSeq(d.connected, c)
                    THEN /\ Len(QueueOf(d.queue_after, c)) = Len(QueueOf(d.queue_before, c)) + 1
                         /\ IsPrefix(QueueOf(d.queue_before, c), QueueOf(d.queue_after, c))
                         /\ LET u == QueueOf(d.queue_after, c)[Len(QueueOf(d.queue_after, c))]
                            IN /\ u.update_type = "update"
                               /\ u.entity_id = d.id
                               /\ \A k \in DictKeys :
                                     u.data[k] = IF k \in S THEN d.current[k] ELSE Absent
                    ELSE QueueOf(d.queue_after, c) = QueueOf(d.queue_before, c)

C18_Witness ==
    \E i \in 1..Len(detects) :
        /\ detects[i].previous # EmptyDict
        /\ Changed(detects[i].previous, detects[i].current) = {"interaction_rect"}
        /\ Len(detects[i].connected) = 2
        /\ detects[i].raised = "none"

\* C19: at a TickComplete where an entity's serialized form equals its
\* non-empty snapshot, detect_updates queues nothing for any destination.
C19_UnchangedQueuesNothing ==
    \A i \in 1..Len(detects) :
        LET d == detects[i]
        IN (d.previous # EmptyDict /\ d.current = d.previous) =>
              /\ d.raised = "none"
              /\ d.queue_after = d.queue_before
              /\ d.snapshot_after = d.previous

C19_Witness ==
    \E i \in 1..Len(detects) :
        /\ detects[i].previous # EmptyDict
        /\ detects[i].current = detects[i].previous
        /\ Len(detects[i].connected) = 2
        /\ detects[i].queue_after = detects[i].queue_before

\* C20: two consecutive simulation ticks are at least 1/max_tick_rate of
\* clock time apart: the time measure_dt finds between a TickStart and the
\* TickStart before it is at least SimPeriod.
C20_SimTicksOnePeriodApart ==
    (pc = "phase" /\ phase = 2 /\ tick_count >= 1 /\ exc = "none") => dt >= SimPeriod
(***************************************************************************)
(* C21                                                                     *)
(***************************************************************************)
\* C21: any two consecutive dispatches of NetworkTick are at least one
\* network period (1/network_tick_rate) apart on the clock, whatever the
\* simulation period is.
C21_NetworkTicksOnePeriodApart ==
    \A i \in 1..Len(network_ticks) - 1 :
        network_ticks[i + 1] - network_ticks[i] >= NetPeriod

\* NetworkTick was dispatched twice, with simulation ticks in between that
\* came faster than the network period
C21_Witness ==
    /\ Len(network_ticks) >= 2
    /\ tick_count >= 2
    /\ dt < NetPeriod

(***************************************************************************)
(* C22                                                                     *)
(***************************************************************************)
\* every key of the registry maps to an entity whose id is that key
KeysAreIds == \A i \in 1..Len(entities) : heap[entities[i][2]].id = entities[i][1]

\* a step leaves the id of every entity object as it was
IdsKept == \A o \in 1..Len(heap) : heap'[o].id = heap[o].id

\* C22: each key k of the registry maps to an entity whose id is k, and no
\* operation (construction, create, update, delete, resolution) changes the
\* id of an entity.
C22_RegistryKeyedById == [](KeysAreIds) /\ [][IdsKept]_vars

\* an update delta was applied to an entity of the registry, which is still
\* registered
C22_Witness ==
    /\ exc = "none"
    /\ \E i \in 1..Len(loads) : \E k \in 1..Len(loads[i].applied) :
          /\ loads[i].applied[k].update_type = "update"
          /\ HasKey(loads[i].registry[k], loads[i].applied[k].entity_id)
          /\ HasKey(entities, loads[i].applied[k].entity_id)
          /\ loads[i].resolved

(***************************************************************************)
(* C23                                                                     *)
(***************************************************************************)
\* the create updates a client sent in this loop iteration that load_updates
\* applied: <<relay, update>> pairs
LoadedClientCreates ==
    {ru \in (1..Len(relays)) \X UNION {Range(relays[i].batch) : i \in 1..Len(relays)} :
        /\ InSeq(relays[ru[1]].batch, ru[2])
        /\ ru[2].update_type = "create"
        /\ \E i \in 1..Len(loads) : InSeq(loads[i].applied, ru[2]) /\ loads[i].resolved}

\* C23: after the server has loaded a create for entity e authored by client
\* C, its TickComplete runs detect_updates for e, which finds no previous
\* snapshot and queues a create update for e with its full data for every
\* other connected client and not for C.
C23_TickCompleteRebroadcasts ==
    (exc = "none" /\ InSeq(dispatched, "TickComplete")) =>
        \A ru \in LoadedClientCreates :
            \E d \in 1..Len(detects) :
                /\ detects[d].id = ru[2].entity_id
                /\ detects[d].previous = EmptyDict
                /\ \A c \in Clients :
                      IF InSeq(detects[d].connected, c) /\ c # relays[ru[1]].sender
                      THEN /\ HasKey(detects[d].queue_after, c)
                           /\ Get(detects[d].queue_after, c) =
                                 Append(QueueOf(detects[d].queue_before, c),
                                        Update("create", ru[2].entity_id, ru[2].entity_type,
                                               detects[d].current))
                      ELSE QueueOf(detects[d].queue_after, c) = QueueOf(detects[d].queue_before, c)

\* the flush load_updates ends with, in this loop iteration
LoadFlushes == {f \in 1..Len(flushes) : flushes[f].on = "UpdatesLoaded"}

\* C23 (amended): a create for entity e read from client C is queued as it
\* came, by receive_client_updates, for every other connected client and
\* not for C; when load_updates has applied it and completed, the flush it
\* ends with sends that create to each of those clients in one message and
\* sends C no message holding it; the TickComplete that follows runs
\* detect_updates for no entity whose updater is a client, so it produces no
\* update for e.
C23_ClientCreateRelayed ==
    exc = "none" =>
        \A ru \in LoadedClientCreates :
            LET r == relays[ru[1]]
                u == ru[2]
            IN /\ \A c \in Clients :
                     (InSeq(r.connected, c) /\ c # r.sender) => InSeq(QueueOf(r.queue_after, c), u)
               /\ QueueOf(r.queue_after, r.sender) = QueueOf(r.queue_before, r.sender)
               /\ \E f \in LoadFlushes :
                     /\ ~flushes[f].raised
                     /\ \A c \in Clients :
                           IF InSeq(r.connected, c) /\ c # r.sender
                           THEN /\ Len(flushes[f].sent_after[c]) = Len(flushes[f].sent_before[c]) + 1
                                /\ InSeq(flushes[f].sent_after[c][Len(flushes[f].sent_after[c])], u)
                           ELSE \A k \in 1..Len(flushes[f].sent_after[c]) :
                                   k > Len(flushes[f].sent_before[c]) =>
                                       ~InSeq(flushes[f].sent_after[c][k], u)
               /\ (InSeq(dispatched, "TickComplete") /\ u.data.updater # ServerUuid) =>
                     \A d \in 1..Len(detects) : detects[d].id # u.entity_id

\* c1's create was relayed while c2 was connected, loaded and flushed to c2,
\* and TickComplete has been dispatched since
C23_Witness ==
    /\ exc = "none"
    /\ InSeq(dispatched, "TickComplete")
    /\ \E ru \in LoadedClientCreates :
          /\ relays[ru[1]].sender = "c1"
          /\ relays[ru[1]].connected = <<"c2", "c1">>
          /\ ru[2].data.updater = "c1"
          /\ \E k \in 1..Len(sent["c2"]) : InSeq(sent["c2"][k], ru[2])

(***************************************************************************)
(* C24                                                                     *)
(***************************************************************************)
\* the entity of the registry with this id, built again from its own
\* serialized form by its type's create, serializes to that form before the
\* resolution pass and, when the pass finds every entity it refers to,
\* after it
RoundTrips(i) ==
    LET o == entities[i][2]
        form == Serialize(Cur, o)
        built == Create(Cur, heap[o].cls, heap[o].id, form)
        copy == Len(built.heap)
        resolved == ResolveLoop(built, built.entities)
    IN /\ Serialize(built, copy) = form
       /\ resolved.exc = "none" => /\ Serialize(resolved, copy) = form
                                   /\ resolved.heap[copy].weapon.kind # "unresolved"
                                   /\ resolved.heap[copy].owner.kind # "unresolved"

\* the create updates a completed load_updates applied whose entity no later
\* entry of the same run touched
CreatedInLoad(i) ==
    {k \in 1..Len(loads[i].applied) :
        /\ loads[i].applied[k].update_type = "create"
        /\ \A j \in (k + 1)..Len(loads[i].applied) :
              loads[i].applied[j].entity_id # loads[i].applied[k].entity_id}

BeforeResolution(i) ==
    [Cur EXCEPT !.heap = loads[i].placeholders,
                !.entities = loads[i].registry[Len(loads[i].registry)]]

\* C25: the resolution pass is idempotent: run over the registry a second
\* time, with no change of the registry in between, it raises nothing and
\* leaves every attribute of every entity as the first run left it.
C25_ResolutionIdempotent ==
    exc = "none" =>
        \A i \in 1..Len(loads) :
            loads[i].resolved =>
                LET once == ResolveLoop(BeforeResolution(i), BeforeResolution(i).entities)
                    twice == ResolveLoop(once, once.entities)
                IN /\ once.exc = "none"
                   /\ twice.exc = "none"
                   /\ twice.heap = once.heap
                   /\ twice.entities = once.entities

\* a resolution pass that met two entities holding placeholders
C25_Witness ==
    /\ exc = "none"
    /\ \E i \in 1..Len(loads) :
          /\ loads[i].resolved
          /\ Cardinality({o \in 1..Len(loads[i].placeholders) :
                             \/ loads[i].placeholders[o].weapon.kind = "unresolved"
                             \/ loads[i].placeholders[o].owner.kind = "unresolved"}) = 2

(***************************************************************************)
(* C26                                                                     *)
(***************************************************************************)
\* C26: an update entry whose entity id is not in the registry is passed
\* over: the pass raises nothing, leaves the registry and every entity
\* object as they were, creates nothing, and the for loop goes on to the
\* entries after it (a load that raised nothing has gone through all of
\* them).
C26_UpdateAbsentIsSkipped ==
    \A i \in 1..Len(loads) :
        \A k \in 1..Len(loads[i].queued) :
            LET u == loads[i].queued[k]
            IN (/\ k <= Len(loads[i].registry)
                /\ u.update_type = "update"
                /\ ~HasKey(loads[i].registry[k], u.entity_id)) =>
                   /\ Len(loads[i].registry) > k
                   /\ loads[i].registry[k + 1] = loads[i].registry[k]
                   /\ loads[i].objects[k + 1] = loads[i].objects[k]
                   /\ loads[i].resolved => Len(loads[i].registry) = Len(loads[i].queued) + 1
                   /\ (k < Len(loads[i].queued) /\ Len(loads[i].registry) > k + 1) =>
                         loads[i].applied[k + 1] = loads[i].queued[k + 1]

\* a load whose first entry was an update for an id the registry did not
\* hold, and whose second entry created an entity
C26_Witness ==
    \E i \in 1..Len(loads) :
        /\ loads[i].resolved
        /\ Len(loads[i].queued) = 2
        /\ loads[i].queued[1].update_type = "update"
        /\ ~HasKey(loads[i].registry[1], loads[i].queued[1].entity_id)
        /\ loads[i].queued[2].update_type = "create"
        /\ HasKey(loads[i].registry[3], loads[i].queued[2].entity_id)
        /\ ~HasKey(loads[i].registry[2], loads[i].queued[2].entity_id)

(***************************************************************************)
(* C27                                                                     *)
(***************************************************************************)
\* the attribute of the updated entity that the delta of update u set to a
\* non-null id holds the entity the registry has under that id
SetAndResolved(u, field) ==
    LET o == Get(entities, u.entity_id)
    IN (/\ u.data[field] \notin {Absent, None}
        /\ HasKey(entities, u.data[field])
        /\ heap[o].cls \in (IF field = "weapon" THEN HasWeapon ELSE HasOwner)) =>
           heap[o][field] = Live(Get(entities, u.data[field]))

\* C27: when an update whose delta sets a reference attribute (a player's
\* weapon, a weapon's owner or player, a bullet's weapon) to the non-null id
\* of an entity of the registry has been applied, then after the resolution
\* pass that follows the attribute holds the live entity of that id: it is
\* neither None nor the id string.
C27_ReferenceUpdateResolved ==
    exc = "none" =>
        \A i \in 1..Len(loads) :
            loads[i].resolved =>
                \A k \in 1..Len(loads[i].applied) :
                    (/\ loads[i].applied[k].update_type = "update"
                     /\ HasKey(entities, loads[i].applied[k].entity_id)) =>
                        /\ SetAndResolved(loads[i].applied[k], "weapon")
                        /\ SetAndResolved(loads[i].applied[k], "owner")

(***************************************************************************)
(* C28                                                                     *)
(***************************************************************************)
\* C28: two entities constructed locally without an explicit id have two
\* distinct ids, whether of one class or of two, and the registry holds
\* every one of them under its id: the later never took the place of the
\* earlier.
C28_LocalIdsDistinct ==
    /\ \A o1, o2 \in 1..Len(heap) : o1 # o2 => heap[o1].id # heap[o2].id
    /\ \A o \in 1..Len(heap) : HasKey(entities, heap[o].id) /\ Get(entities, heap[o].id) = o

(***************************************************************************)
(* C29                                                                     *)
(***************************************************************************)
\* the places of the updates sent to client c: <<message, index>>, and
\* their order on the wire
SentPlaces(c) == UNION {{<<m, k>> : k \in 1..Len(sent[c][m])} : m \in 1..Len(sent[c])}
Earlier(a, b) == a[1] < b[1] \/ (a[1] = b[1] /\ a[2] < b[2])
SentAt(c, mk) == sent[c][mk[1]][mk[2]]

\* C29: no client is sent two create updates for one entity id while that
\* entity stays alive (with no delete for this id sent to it in between),
\* whatever the order of creations, connections and ticks; in particular
\* the late-join snapshot and the first-tick create of a server-owned
\* entity do not both reach a client that connected in the tick the entity
\* was first diffed in.
C29_NoDuplicateCreate ==
    \A c \in Clients :
        \A a, b \in SentPlaces(c) :
            (/\ Earlier(a, b)
             /\ SentAt(c, a).update_type = "create"
             /\ SentAt(c, b).update_type = "create"
             /\ SentAt(c, a).entity_id = SentAt(c, b).entity_id) =>
                \E d \in SentPlaces(c) :
                    /\ Earlier(a, d)
                    /\ Earlier(d, b)
                    /\ SentAt(c, d).update_type = "delete"
                    /\ SentAt(c, d).entity_id = SentAt(c, a).entity_id

(***************************************************************************)
(* C30                                                                     *)
(***************************************************************************)
\* a create update for this id was sent to client c or waits in its queue
CreateKnownTo(c, id) ==
    \/ \E mk \in SentPlaces(c) :
          SentAt(c, mk).update_type = "create" /\ SentAt(c, mk).entity_id = id
    \/ \E k \in 1..Len(QueueOf(update_queue, c)) :
          /\ QueueOf(update_queue, c)[k].update_type = "create"
          /\ QueueOf(update_queue, c)[k].entity_id = id

RECURSIVE Flatten(_)
Flatten(messages) == IF messages = <<>> THEN <<>> ELSE Head(messages) \o Flatten(Tail(messages))

\* C31: every update appended to the queue of a client is sent to it exactly
\* once and in the order of the appends: what a client has been sent,
\* followed by what waits in its queue, is what was appended to its queue;
\* no flush loses, repeats or reorders an update.
C31_SentOnceInOrder ==
    \A c \in Clients : Flatten(sent[c]) \o QueueOf(update_queue, c) = appended[c]

\* a client was sent two messages, one of them holding several updates, and
\* more updates wait in its queue
C31_Witness ==
    \E c \in Clients :
        /\ Len(sent[c]) >= 2
        /\ \E m \in 1..Len(sent[c]) : Len(sent[c][m]) >= 2
        /\ QueueOf(update_queue, c) # <<>>

(***************************************************************************)
(* C32                                                                     *)
(***************************************************************************)
\* updates wait in the queue of a connected client that has not closed its
\* stream, and the loop has a simulation tick to come
QueuedFor(c) ==
    /\ InSeq(client_sockets, c)
    /\ c \notin closed
    /\ QueueOf(update_queue, c) # <<>>
    /\ tick_count < MaxTicks

\* the queue of client c has been sent: it is empty and all that was ever
\* appended to it is on the wire
AllSentTo(c) == QueueOf(update_queue, c) = <<>> /\ Flatten(sent[c]) = appended[c]

\* C32: under a fair run of the server loop, every update queued for a
\* client that stays connected is eventually sent (a diff queued at
\* TickComplete is sent by the flush of the simulation tick that follows).
C32_QueuedEventuallySent == \A c \in Clients : QueuedFor(c) ~> (AllSentTo(c) \/ c \in closed)

\* the same, for the runs of the loop that no exception ends
C32_SentUnlessRunEnds ==
    \A c \in Clients : QueuedFor(c) ~> (AllSentTo(c) \/ c \in closed \/ exc # "none")


(***************************************************************************)
(* C33                                                                     *)
(***************************************************************************)
\* C33: the flush of handle_new_client sends nothing to a client other than
\* the new one and leaves the queue of every other client as it was.
C33_NewClientSendsOnlyToNewClient ==
    \A i \in 1..Len(flushes) :
        LET f == flushes[i]
        IN f.on = "NewClient" =>
              \A c \in Clients \ {f.client} :
                  /\ f.sent_after[c] = f.sent_before[c]
                  /\ QueueOf(f.queue_after, c) = QueueOf(f.queue_before, c)


(***************************************************************************)
(* C34                                                                     *)
(***************************************************************************)
\* the server after handle_client_disconnect has handled the disconnect of
\* client c in the state the server is in
Disconnecting(c) == handle_client_disconnect(Cur, ClientEvent("DisconnectedClient", c))

\* C34: in every state of a running server, handle_client_disconnect
\* completes without raising for every connected client, and it keeps the
\* socket of every other client, every entity another updater owns, and what
\* was queued for every other client (updates are only appended to it).
C34_DisconnectHandlingCompletes ==
    \A c \in Clients :
        (exc = "none" /\ InSeq(client_sockets, c)) =>
            LET t == Disconnecting(c)
            IN /\ t.exc = "none"
               /\ \A d \in Clients \ {c} :
                     /\ InSeq(t.client_sockets, d) <=> InSeq(client_sockets, d)
                     /\ IsPrefix(QueueOf(update_queue, d), QueueOf(t.update_queue, d))
               /\ \A j \in 1..Len(entities) :
                     heap[entities[j][2]].updater # c => InSeq(t.entities, entities[j])


(***************************************************************************)
(* C35                                                                     *)
(***************************************************************************)
\* C35: in a run of the loop, DisconnectedClient is dispatched at most once
\* for a client (a client whose poll raised Disconnected in one simulation
\* tick is not polled in a later one).
C35_DisconnectedClientOnce == \A c \in Clients : disconnect_count[c] <= 1


(***************************************************************************)
(* C36                                                                     *)
(***************************************************************************)
\* block is a run of consecutive elements of q
HasBlock(q, block) ==
    \E k \in 0..(Len(q) - Len(block)) : SubSeq(q, k + 1, k + Len(block)) = block

\* the message the flush f sent to client c, <<>> when it sent none
MessageOf(f, c) ==
    IF Len(flushes[f].sent_after[c]) > Len(flushes[f].sent_before[c])
    THEN flushes[f].sent_after[c][Len(flushes[f].sent_after[c])]
    ELSE <<>>

\* C36: when load_updates has applied the batches of a tick and flushed,
\* the queues it flushed were as the relay of the last batch left them, and
\* the message sent to each other client holds every batch read from a
\* client as that client sent it, whatever create wrote into the dicts of
\* the pass.
C36_RelayedAsSent ==
    \A f \in LoadFlushes :
        (~flushes[f].raised /\ relays # <<>>) =>
            /\ flushes[f].queue_before = relays[Len(relays)].queue_after
            /\ \A i \in 1..Len(relays) :
                  \A c \in Clients :
                      (InSeq(relays[i].connected, c) /\ c # relays[i].sender) =>
                          HasBlock(MessageOf(f, c), relays[i].batch)

\* a load applied a create, which rewrote the dict of its pass, and the
\* create was sent to the other client
C36_Witness ==
    \E f \in LoadFlushes :
        /\ ~flushes[f].raised
        /\ \E i \in 1..Len(relays) :
              /\ relays[i].sender = "c1"
              /\ InSeq(relays[i].connected, "c2")
              /\ \E k \in 1..Len(relays[i].batch) :
                    /\ relays[i].batch[k].update_type = "create"
                    /\ InSeq(MessageOf(f, "c2"), relays[i].batch[k])
                    /\ \E l \in 1..Len(loads) :
                          /\ InSeq(loads[l].copy, Rewritten(relays[i].batch[k]))
                          /\ ~InSeq(loads[l].copy, relays[i].batch[k])

=============================================================================
